---- MODULE Spec2Model ----
(***************************************************************************)
(* The offline ledger engine of frontend/src/hooks/useQueries: the         *)
(* localStorage collections, the React Query cache entries the query       *)
(* functions prefer over storage, and the mutation handlers                *)
(* (mutationFn followed by onSuccess).                                     *)
(*                                                                         *)
(* Abstractions.  Timestamps are ticks; a calendar day is DayLen ticks     *)
(* long and starts at a multiple of DayLen (the code zeroes the local      *)
(* hours of a millisecond date; days of another length, as on a DST        *)
(* change, are not modelled).  bigint <-> decimal string conversion of     *)
(* saveLocal... / getLocal... is exact for every integer, so a stored      *)
(* collection is held as the value getLocal... parses back.  A map key     *)
(* is the date whose decimal string the code uses as the key.              *)
(***************************************************************************)
EXTENDS Integers, Sequences, FiniteSets, TLC

VARIABLES
    lsTransactions,       \* localStorage item apj_transactions
    lsUserDeductions,     \* localStorage item apj_user_deductions
    lsTenPercentSavings,  \* localStorage item apj_ten_percent_savings
    lsOpeningBalance,     \* localStorage item apj_opening_balance
    qTransactions,        \* query cache data of ['transactions']
    qOpeningBalance,      \* query cache data of ['openingBalance']
    lastOp,               \* the last operation, its arguments and what it returned
    maxAssignedId,        \* history: greatest id assigned since the last clear, -1 if none
    actor,                \* the backend actor's stable state
    backupFile,           \* the backup file the browser last downloaded, None if none
    auth,                 \* usePinAuth, PinAuth and the PIN items of storage
    report                \* the last reporter or calculator call: its input and output

vars == <<lsTransactions, lsUserDeductions, lsTenPercentSavings, lsOpeningBalance,
          qTransactions, qOpeningBalance, lastOp, maxAssignedId,
          actor, backupFile, report, auth>>

\* What the hooks of useQueries other than backup and restore never touch.
outside == <<actor, backupFile, report, auth>>

----------------------------------------------------------------------------
\* Bounds of the model.

MaxTxns == 2

MaxId == 2

DayLen == 3

----------------------------------------------------------------------------
\* Values.

\* An absent localStorage item, or a query without data (undefined).
None == <<>>

Some(v) == <<v>>

\* JS null, as a mutation argument.
Null == "null"

TransactionType == {"cashIn", "cashOut", "upiIn", "upiOut", "savingsOut", "deductionsOut"}

\* Dates of two calendar days: every tick of the first, the start of the second.
Dates == DayLen .. (2 * DayLen)

Amounts == {-50, 0, 150}

EmptyMap == [k \in {} |-> 0]

ZeroOpeningBalance ==
    [cashBalance |-> 0, upiBalance |-> 0, savings |-> 0, userDeductions |-> 0, date |-> 0]

MapSetAccumulating(m, k, v) ==
    [x \in (DOMAIN m) \cup {k} |->
         IF x = k THEN (IF k \in DOMAIN m THEN m[k] ELSE 0) + v ELSE m[x]]

MapSet(m, k, v) == [x \in (DOMAIN m) \cup {k} |-> IF x = k THEN v ELSE m[x]]

RECURSIVE SumValues(_)
SumValues(m) ==
    IF DOMAIN m = {} THEN 0
    ELSE LET k == CHOOSE x \in DOMAIN m : TRUE
         IN  m[k] + SumValues([x \in (DOMAIN m) \ {k} |-> m[x]])

\* transactions.reduce / forEach adding the amounts of the given types.
RECURSIVE SumOfTypes(_, _)
SumOfTypes(transactions, types) ==
    IF transactions = <<>> THEN 0
    ELSE (IF Head(transactions).transactionType \in types
             THEN Head(transactions).amount ELSE 0)
         + SumOfTypes(Tail(transactions), types)

RECURSIVE Filter(_, _)
Filter(transactions, keep) ==
    IF transactions = <<>> THEN <<>>
    ELSE (IF Head(transactions) \in keep THEN <<Head(transactions)>> ELSE <<>>)
         \o Filter(Tail(transactions), keep)

Range(s) == {s[i] : i \in 1 .. Len(s)}

\* new Date(ms).setHours(0, 0, 0, 0): the start of the date's calendar day.
StartOfDay(date) == date - (date % DayLen)

----------------------------------------------------------------------------
\* localStorage readers: the item as stored (None when absent) to the parsed value.

GetLocalTransactions(item) == IF item = None THEN <<>> ELSE item[1]

GetLocalOpeningBalance(item) == IF item = None THEN ZeroOpeningBalance ELSE item[1]

GetLocalUserDeductions(item) == IF item = None THEN EmptyMap ELSE item[1]

GetLocalTenPercentSavings(item) == IF item = None THEN EmptyMap ELSE item[1]

\* queryClient.getQueryData(key) || getLocal...(): an array or an object is truthy.
CachedOr(cached, stored) == IF cached = None THEN stored ELSE cached[1]

----------------------------------------------------------------------------
\* The engine's functions.

\* calculateTenPercentDeduction of the backend actor: the Deduction Calculator.
CalculateTenPercentDeduction(totalAmount) ==
    IF totalAmount > 0
    THEN LET tenPercent == (totalAmount * 10) \div 100
             remainder  == tenPercent % 10
         IN  IF remainder >= 5 THEN tenPercent + (10 - remainder)
                               ELSE tenPercent - remainder
    ELSE 0

RecalcDeductionRoundedDown(totalInflows) ==
    LET tenPercent == (totalInflows * 10) \div 100
    IN  tenPercent - (tenPercent % 10)

\* The rounding of recalculateTenPercentSavings, for a positive day total.
RecalcDeduction(totalInflows) ==
    LET tenPercent == (totalInflows * 10) \div 100
        remainder  == tenPercent % 10
    IN  IF remainder >= 5 THEN tenPercent + (10 - remainder) ELSE tenPercent - remainder

\* The transactions grouped under one date key by recalculateTenPercentSavings.
DayTransactions(transactions, dateKey) ==
    Filter(transactions, {t \in Range(transactions) : StartOfDay(t.date) = dateKey})

\* recalculateTenPercentSavings: the map built from scratch, one key per day
\* whose inflow total is positive; it is what the function saves and returns.
RecalculateTenPercentSavings(transactions) ==
    LET dateKeys == {StartOfDay(t.date) : t \in Range(transactions)}
        totalInflows(k) == SumOfTypes(DayTransactions(transactions, k), {"cashIn", "upiIn"})
    IN  [k \in {d \in dateKeys : totalInflows(d) > 0} |-> RecalcDeduction(totalInflows(k))]

\* calculateCumulativeStats, given the two maps it loads from storage.
CalculateCumulativeStats(openingBalance, tenPercentSavings, userDeductions) ==
    [cumulativeTenPercentSavings |->
         openingBalance.savings + SumValues(tenPercentSavings),
     cumulativeUserSpecifiedDeductions |->
         openingBalance.userDeductions + SumValues(userDeductions)]

\* calculateBalances up to the four balances.
BalanceHeads(transactions, cumulativeStats, openingBalance) ==
    LET cashIn        == SumOfTypes(transactions, {"cashIn"}) + openingBalance.cashBalance
        cashOut       == SumOfTypes(transactions, {"cashOut"})
        upiIn         == SumOfTypes(transactions, {"upiIn"}) + openingBalance.upiBalance
        upiOut        == SumOfTypes(transactions, {"upiOut"})
        savingsOut    == SumOfTypes(transactions, {"savingsOut"})
        deductionsOut == SumOfTypes(transactions, {"deductionsOut"})
    IN  [cashIn |-> cashIn, cashOut |-> cashOut, upiIn |-> upiIn, upiOut |-> upiOut,
         cashBalance |->
             ((cashIn - cashOut) - cumulativeStats.cumulativeTenPercentSavings)
                 - cumulativeStats.cumulativeUserSpecifiedDeductions,
         upiBalance |-> upiIn - upiOut,
         savingsBalance |->
             (openingBalance.savings + cumulativeStats.cumulativeTenPercentSavings)
                 - savingsOut,
         deductionsBalance |->
             (openingBalance.userDeductions
                  + cumulativeStats.cumulativeUserSpecifiedDeductions) - deductionsOut]

TotalBalanceOfAllHeads(heads) ==
    heads.cashBalance + heads.upiBalance + heads.savingsBalance + heads.deductionsBalance

\* calculateBalances: totalBalance, which excludedTotalBalance repeats.
TotalBalance(heads) == heads.cashBalance + heads.upiBalance

CalculateBalances(transactions, cumulativeStats, openingBalance) ==
    LET heads == BalanceHeads(transactions, cumulativeStats, openingBalance)
    IN  [cashIn |-> heads.cashIn, cashOut |-> heads.cashOut,
         upiIn |-> heads.upiIn, upiOut |-> heads.upiOut,
         cashBalance |-> heads.cashBalance, upiBalance |-> heads.upiBalance,
         savingsBalance |-> heads.savingsBalance,
         deductionsBalance |-> heads.deductionsBalance,
         totalBalance |-> TotalBalance(heads),
         excludedTotalBalance |-> TotalBalance(heads)]

\* The rounding of calculateDailyTracking.
DailyTenPercentDeduction(totalDailyTransactions) ==
    IF totalDailyTransactions > 0
    THEN LET tenPercent == (totalDailyTransactions * 10) \div 100
             remainder  == tenPercent % 10
         IN  IF remainder >= 5 THEN tenPercent + (10 - remainder)
                               ELSE tenPercent - remainder
    ELSE 0

CalculateDailyTrackingNetOfOutflows(transactions, date, userDeductions) ==
    LET startOfDay == StartOfDay(date)
        filteredTransactions ==
            Filter(transactions,
                   {t \in Range(transactions) :
                        t.date >= startOfDay /\ t.date < startOfDay + DayLen})
        totalDailyTransactions == SumOfTypes(filteredTransactions, {"cashIn", "upiIn"})
        dailyTenPercentDeduction == DailyTenPercentDeduction(totalDailyTransactions)
        userSpecifiedDailyDeduction ==
            IF date \in DOMAIN userDeductions THEN userDeductions[date] ELSE 0
        cashOut == SumOfTypes(filteredTransactions, {"cashOut"})
        upiOut  == SumOfTypes(filteredTransactions, {"upiOut"})
    IN  [totalDailyTransactions |-> totalDailyTransactions,
         dailyTenPercentDeduction |-> dailyTenPercentDeduction,
         userSpecifiedDailyDeduction |-> userSpecifiedDailyDeduction,
         totalDailyTransactionsWithDeduction |->
             totalDailyTransactions
                 - (dailyTenPercentDeduction + userSpecifiedDailyDeduction)
                 - cashOut - upiOut,
         cashOut |-> cashOut,
         upiOut  |-> upiOut]

\* calculateDailyTracking: what it returns.
CalculateDailyTracking(transactions, date, userDeductions) ==
    LET startOfDay == StartOfDay(date)
        endOfDay   == startOfDay + DayLen
        filteredTransactions ==
            Filter(transactions,
                   {t \in Range(transactions) : t.date >= startOfDay /\ t.date < endOfDay})
        totalDailyTransactions == SumOfTypes(filteredTransactions, {"cashIn", "upiIn"})
        dailyTenPercentDeduction == DailyTenPercentDeduction(totalDailyTransactions)
        userSpecifiedDailyDeduction ==
            IF date \in DOMAIN userDeductions THEN userDeductions[date] ELSE 0
    IN  [totalDailyTransactions |-> totalDailyTransactions,
         dailyTenPercentDeduction |-> dailyTenPercentDeduction,
         userSpecifiedDailyDeduction |-> userSpecifiedDailyDeduction,
         totalDailyTransactionsWithDeduction |->
             totalDailyTransactions
                 - (dailyTenPercentDeduction + userSpecifiedDailyDeduction),
         cashOut |-> SumOfTypes(filteredTransactions, {"cashOut"}),
         upiOut  |-> SumOfTypes(filteredTransactions, {"upiOut"})]

TrackedTenPercentSavingsAdded(tenPercentSavings, date, dailyTenPercentDeduction) ==
    MapSet(tenPercentSavings, date,
           (IF date \in DOMAIN tenPercentSavings THEN tenPercentSavings[date] ELSE 0)
               + dailyTenPercentDeduction)

\* calculateDailyTracking: the map it saves; the entry is written under the
\* date it was called with.
TrackedTenPercentSavings(tenPercentSavings, date, dailyTenPercentDeduction) ==
    MapSet(tenPercentSavings, date, dailyTenPercentDeduction)

\* The queryFn of useGetBalances, given the two cache entries and the items of storage.
BalancesQueryFn(cachedTransactions, cachedOpeningBalance, transactionsItem, openingBalanceItem, tenPercentSavingsItem, userDeductionsItem) ==
    LET transactions   == CachedOr(cachedTransactions, GetLocalTransactions(transactionsItem))
        openingBalance ==
            CachedOr(cachedOpeningBalance, GetLocalOpeningBalance(openingBalanceItem))
        cumulativeStats ==
            CalculateCumulativeStats(openingBalance,
                                     GetLocalTenPercentSavings(tenPercentSavingsItem),
                                     GetLocalUserDeductions(userDeductionsItem))
    IN  CalculateBalances(transactions, cumulativeStats, openingBalance)

----------------------------------------------------------------------------
\* The operations.  A mutation is its mutationFn followed by onSuccess.
\* invalidateQueries refetches the queries that have a mounted observer: the
\* Dashboard always mounts OpeningBalancesForm (['openingBalance']), its
\* Overview tab mounts BalanceCards (['balances']), its History, Filter,
\* Day-wise and Monthly tabs mount a list (['transactions']), its Add tab
\* neither.  A refetch runs the queryFn inside the invalidateQueries call and
\* writes the result to the cache when the promise resolves, after onSuccess
\* has returned; the data of a query without observer stays in the cache.

Tabs == {"overview", "add", "history"}

\* What an operation leaves in lastOp; -1, 0 and None where a field does not apply.
Op(name, error, id, amount, date, balances, tracking, repeat) ==
    [op |-> name, error |-> error, id |-> id, amount |-> amount, date |-> date,
     balances |-> balances, tracking |-> tracking, repeat |-> repeat]

Max(a, b) == IF a >= b THEN a ELSE b

MaxIdOf(transactions) ==
    CHOOSE m \in {t.id : t \in Range(transactions)} :
        \A t \in Range(transactions) : t.id <= m

NewIdByLength(localTransactions) == Len(localTransactions)

\* useAddTransaction: the id of the new transaction.
NewId(localTransactions) ==
    IF Len(localTransactions) > 0 THEN MaxIdOf(localTransactions) + 1 ELSE 0

FindIndexOrLast(localTransactions, transactionId) ==
    IF \E i \in 1 .. Len(localTransactions) : localTransactions[i].id = transactionId
    THEN CHOOSE i \in 1 .. Len(localTransactions) :
             localTransactions[i].id = transactionId
    ELSE Len(localTransactions)

\* findIndex(t => t.id.toString() === transactionId.toString()); 0 for -1.
FindIndex(localTransactions, transactionId) ==
    IF \E i \in 1 .. Len(localTransactions) : localTransactions[i].id = transactionId
    THEN CHOOSE i \in 1 .. Len(localTransactions) :
             /\ localTransactions[i].id = transactionId
             /\ \A j \in 1 .. (i - 1) : localTransactions[j].id # transactionId
    ELSE 0

MovedToFront(transactions, index, transaction) ==
    <<transaction>> \o Filter(transactions, Range(transactions) \ {transactions[index]})

\* localTransactions[transactionIndex] = updatedTransaction, and
\* transactions.add(transactionId, editedTransaction) of the actor.
ReplacedAt(transactions, index, transaction) ==
    [transactions EXCEPT ![index] = transaction]

\* The messages of the errors the mutations throw.
AmountError == "Amount cannot be zero"

NotFoundError == "Transaction not found"

AmountRejectedUnlessPositive(amount) == amount <= 0

\* The amount check of useAddTransaction and useEditTransaction: TRUE when it throws.
AmountRejected(amount) == amount = 0

\* description || ''
DescriptionOrEmpty(description) == IF description = Null THEN "" ELSE description

\* The refetch of ['balances'] an onSuccess triggers on the Overview tab.
RefetchedBalances(tab, cachedTransactions, cachedOpeningBalance, transactionsItem, openingBalanceItem, tenPercentSavingsItem, userDeductionsItem) ==
    IF tab = "overview"
    THEN Some(BalancesQueryFn(cachedTransactions, cachedOpeningBalance,
                              transactionsItem, openingBalanceItem,
                              tenPercentSavingsItem, userDeductionsItem))
    ELSE None

\* What add, edit and delete do with the new list: save it, recalculate the
\* 10% savings, set the cache of ['transactions'], then onSuccess.
SaveTransactions(name, updatedTransactions, id, amount, tab) ==
    /\ lsTransactions' = Some(updatedTransactions)
    /\ lsTenPercentSavings' = Some(RecalculateTenPercentSavings(updatedTransactions))
    /\ qTransactions' = Some(updatedTransactions)
    /\ UNCHANGED outside
    /\ lastOp' = Op(name, "", id, amount, 0,
                    RefetchedBalances(tab, qTransactions', qOpeningBalance,
                                      lsTransactions', lsOpeningBalance,
                                      lsTenPercentSavings', lsUserDeductions),
                    None, FALSE)
    /\ UNCHANGED <<lsUserDeductions, lsOpeningBalance, qOpeningBalance>>

\* A mutationFn that throws: onError only shows a toast.
Failed(name, error, id, amount) ==
    /\ UNCHANGED outside
    /\ lastOp' = Op(name, error, id, amount, 0, None, None, FALSE)
    /\ UNCHANGED <<lsTransactions, lsUserDeductions, lsTenPercentSavings,
                   lsOpeningBalance, qTransactions, qOpeningBalance, maxAssignedId>>

AddTransaction(transactionType, amount, description, date, tab) ==
    LET localTransactions == GetLocalTransactions(lsTransactions)
        newId == NewId(localTransactions)
        newTransaction ==
            [id |-> newId, transactionType |-> transactionType, amount |-> amount,
             description |-> DescriptionOrEmpty(description), date |-> date]
    IN  IF AmountRejected(amount)
        THEN Failed("addTransaction", AmountError, -1, amount)
        ELSE /\ Len(localTransactions) < MaxTxns
             /\ newId <= MaxId
             /\ SaveTransactions("addTransaction", <<newTransaction>> \o localTransactions,
                                 newId, amount, tab)
             /\ maxAssignedId' = Max(maxAssignedId, newId)

EditTransaction(transactionId, transactionType, amount, description, date, tab) ==
    LET localTransactions == GetLocalTransactions(lsTransactions)
        transactionIndex == FindIndex(localTransactions, transactionId)
        updatedTransaction ==
            [id |-> transactionId, transactionType |-> transactionType, amount |-> amount,
             description |-> DescriptionOrEmpty(description), date |-> date]
    IN  IF AmountRejected(amount)
        THEN Failed("editTransaction", AmountError, transactionId, amount)
        ELSE IF transactionIndex = 0
        THEN Failed("editTransaction", NotFoundError, transactionId, amount)
        ELSE /\ SaveTransactions("editTransaction",
                                 ReplacedAt(localTransactions, transactionIndex,
                                            updatedTransaction),
                                 transactionId, amount, tab)
             /\ UNCHANGED maxAssignedId

DeleteTransaction(transactionId, tab) ==
    LET localTransactions == GetLocalTransactions(lsTransactions)
        transactionIndex == FindIndex(localTransactions, transactionId)
    IN  IF transactionIndex = 0
        THEN Failed("deleteTransaction", NotFoundError, transactionId, 0)
        ELSE /\ SaveTransactions("deleteTransaction",
                                 Filter(localTransactions,
                                        {t \in Range(localTransactions) :
                                             t.id # transactionId}),
                                 transactionId, 0, tab)
             /\ UNCHANGED maxAssignedId

SetUserSpecifiedDeduction(date, amount, tab) ==
    /\ lsUserDeductions' =
           Some(MapSet(GetLocalUserDeductions(lsUserDeductions), date, amount))
    /\ UNCHANGED outside
    /\ lastOp' = Op("setUserSpecifiedDeduction", "", -1, amount, date,
                    RefetchedBalances(tab, qTransactions, qOpeningBalance,
                                      lsTransactions, lsOpeningBalance,
                                      lsTenPercentSavings, lsUserDeductions'),
                    None, FALSE)
    /\ UNCHANGED <<lsTransactions, lsTenPercentSavings, lsOpeningBalance,
                   qTransactions, qOpeningBalance, maxAssignedId>>

\* useAddOpeningBalance and useUpdateOpeningBalance (the same code): the
\* refetch of ['openingBalance'] is started first and lands last.
SaveOpeningBalance(name, openingBalance, tab) ==
    /\ lsOpeningBalance' = Some(openingBalance)
    /\ qOpeningBalance' = Some(GetLocalOpeningBalance(lsOpeningBalance'))
    /\ UNCHANGED outside
    /\ lastOp' = Op(name, "", -1, 0, 0,
                    RefetchedBalances(tab, qTransactions, qOpeningBalance,
                                      lsTransactions, lsOpeningBalance',
                                      lsTenPercentSavings, lsUserDeductions),
                    None, FALSE)
    /\ UNCHANGED <<lsTransactions, lsUserDeductions, lsTenPercentSavings,
                   qTransactions, maxAssignedId>>

AddOpeningBalance(openingBalance, tab) ==
    SaveOpeningBalance("addOpeningBalance", openingBalance, tab)

UpdateOpeningBalance(openingBalance, tab) ==
    SaveOpeningBalance("updateOpeningBalance", openingBalance, tab)

ClearTransactionData(tab) ==
    /\ lsTransactions' = None
    /\ lsUserDeductions' = None
    /\ lsTenPercentSavings' = None
    /\ lsOpeningBalance' = None
    /\ qTransactions' = IF tab = "history"
                           THEN Some(GetLocalTransactions(lsTransactions'))
                           ELSE qTransactions
    /\ qOpeningBalance' = Some(GetLocalOpeningBalance(lsOpeningBalance'))
    /\ UNCHANGED outside
    /\ lastOp' = Op("clearTransactionData", "", -1, 0, 0,
                    RefetchedBalances(tab, qTransactions, qOpeningBalance,
                                      lsTransactions', lsOpeningBalance',
                                      lsTenPercentSavings', lsUserDeductions'),
                    None, FALSE)
    /\ maxAssignedId' = -1

\* The queryFn of useGetDailyTracking.
GetDailyTracking(date) ==
    LET transactions == CachedOr(qTransactions, GetLocalTransactions(lsTransactions))
        tracking == CalculateDailyTracking(transactions, date,
                                           GetLocalUserDeductions(lsUserDeductions))
    IN  /\ lsTenPercentSavings' =
               Some(TrackedTenPercentSavings(GetLocalTenPercentSavings(lsTenPercentSavings),
                                             date, tracking.dailyTenPercentDeduction))
        /\ UNCHANGED outside
        /\ lastOp' = Op("getDailyTracking", "", -1, 0, date, None, Some(tracking),
                        lastOp.op = "getDailyTracking" /\ lastOp.date = date)
        /\ UNCHANGED <<lsTransactions, lsUserDeductions, lsOpeningBalance,
                       qTransactions, qOpeningBalance, maxAssignedId>>

\* The queryFn of useGetBalances, run when BalanceCards mounts or refreshes.
GetBalances ==
    /\ UNCHANGED outside
    /\ lastOp' = Op("getBalances", "", -1, 0, 0,
                    Some(BalancesQueryFn(qTransactions, qOpeningBalance, lsTransactions,
                                         lsOpeningBalance, lsTenPercentSavings,
                                         lsUserDeductions)),
                    None, FALSE)
    /\ UNCHANGED <<lsTransactions, lsUserDeductions, lsTenPercentSavings,
                   lsOpeningBalance, qTransactions, qOpeningBalance, maxAssignedId>>

\* The queryFn of useGetAllTransactions, run when a list mounts.
GetAllTransactions ==
    /\ qTransactions' = Some(GetLocalTransactions(lsTransactions))
    /\ UNCHANGED outside
    /\ lastOp' = Op("getAllTransactions", "", -1, 0, 0, None, None, FALSE)
    /\ UNCHANGED <<lsTransactions, lsUserDeductions, lsTenPercentSavings,
                   lsOpeningBalance, qOpeningBalance, maxAssignedId>>

\* The queryFn of useGetOpeningBalance, run when the Dashboard mounts.
GetOpeningBalance ==
    /\ qOpeningBalance' = Some(GetLocalOpeningBalance(lsOpeningBalance))
    /\ UNCHANGED outside
    /\ lastOp' = Op("getOpeningBalance", "", -1, 0, 0, None, None, FALSE)
    /\ UNCHANGED <<lsTransactions, lsUserDeductions, lsTenPercentSavings,
                   lsOpeningBalance, qTransactions, maxAssignedId>>

----------------------------------------------------------------------------
\* The state outside the localStorage engine.

\* persistentOpeningBalance of the backend actor after construction.
ActorZeroOpeningBalance ==
    [cashBalance |-> 0, upiBalance |-> 0, savings |-> 0, userDeductions |-> 0, date |-> 0]

\* The backend actor after construction. transactions holds the values of
\* the id-keyed map in key order; registered says whether the caller has a role.
ActorInit ==
    [transactions |-> <<>>,
     nextTransactionId |-> 0,
     userSpecifiedDeductions |-> EmptyMap,
     tenPercentSavings |-> EmptyMap,
     persistentOpeningBalance |-> ActorZeroOpeningBalance,
     registered |-> FALSE]

\* A PIN is the sequence of the characters entered.
Digits == {"0", "1", "2", "3", "4", "5", "6", "7", "8", "9"}

IsFourCharacters(pin) == Len(pin) = 4

\* pin.length !== 4 || !/^\d{4}$/.test(pin), negated.
IsFourDigits(pin) == Len(pin) = 4 /\ \A i \in 1 .. Len(pin) : pin[i] \in Digits

\* hashPin: the SHA-256 digest of the PIN in hex; distinct for distinct PINs.
HashPin(pin) == [algorithm |-> "SHA-256", message |-> pin]

\* The state of PinAuth when it mounts: the authError effect copies the error.
PinAuthMounted(authError) ==
    [pin |-> <<>>, confirmPin |-> <<>>, isConfirming |-> FALSE, isProcessing |-> FALSE,
     error |-> IF authError = None THEN "" ELSE authError[1]]

\* A fresh browser on the first render of App: nothing stored, the useState
\* defaults of usePinAuth, no call in flight.  The last five fields are
\* history: the last event, the PIN that was set up, the PIN that
\* authenticated this session, the last two entries PinAuth processed and
\* the last call of onSetupPin with the entries at that time.
AuthInit ==
    [pinHash |-> None, pinSetupComplete |-> None, sessionAuthenticated |-> None,
     isAuthenticated |-> FALSE, isInitializing |-> TRUE, hasPinSetup |-> FALSE,
     isVerifyingPin |-> FALSE, authError |-> None,
     pinAuth |-> PinAuthMounted(None),
     pending |-> None,
     event |-> "load", setUp |-> None, accepted |-> None, entries |-> <<>>,
     setupCalledWith |-> None]

\* The browser of a user who has set up the PIN 1234 and is signed in.
SignedIn ==
    [AuthInit EXCEPT !.pinHash = Some(HashPin(<<"1", "2", "3", "4">>)),
                     !.pinSetupComplete = Some("true"),
                     !.sessionAuthenticated = Some("true"),
                     !.isAuthenticated = TRUE, !.isInitializing = FALSE,
                     !.hasPinSetup = TRUE,
                     !.event = "setupPin",
                     !.setUp = Some(<<"1", "2", "3", "4">>),
                     !.accepted = Some(<<"1", "2", "3", "4">>),
                     !.entries = <<<<"1", "2", "3", "4">>, <<"1", "2", "3", "4">>>>,
                     !.setupCalledWith =
                         Some([pin |-> <<"1", "2", "3", "4">>,
                               entries |-> <<<<"1", "2", "3", "4">>,
                                             <<"1", "2", "3", "4">>>>])]

\* A call of a reporter or calculator: its name, its input and what it returned.
Report(name, input, output) == [name |-> name, input |-> input, output |-> output]

NoReport == Report("none", None, None)

OutsideInit ==
    /\ actor = ActorInit
    /\ backupFile = None
    /\ auth = SignedIn
    /\ report = NoReport

\* localStorage and the query cache of a fresh installation.
EngineInit ==
    /\ lsTransactions = None
    /\ lsUserDeductions = None
    /\ lsTenPercentSavings = None
    /\ lsOpeningBalance = None
    /\ qTransactions = None
    /\ qOpeningBalance = None
    /\ lastOp = Op("init", "", -1, 0, 0, None, None, FALSE)
    /\ maxAssignedId = -1

\* bigint division and remainder: the quotient is truncated toward zero.
BigIntDiv(a, b) == IF a >= 0 THEN a \div b ELSE -((-a) \div b)

BigIntRem(a, b) == a - b * BigIntDiv(a, b)

----------------------------------------------------------------------------
\* Inputs and specifications.

OpeningBalances ==
    {ZeroOpeningBalance,
     [cashBalance |-> 500, upiBalance |-> 300, savings |-> 100, userDeductions |-> 40,
      date |-> DayLen]}

\* A fresh installation: nothing stored, nothing fetched.
Init ==
    /\ lsTransactions = None
    /\ lsUserDeductions = None
    /\ lsTenPercentSavings = None
    /\ lsOpeningBalance = None
    /\ qTransactions = None
    /\ qOpeningBalance = None
    /\ lastOp = Op("init", "", -1, 0, 0, None, None, FALSE)
    /\ maxAssignedId = -1
    /\ OutsideInit

AddTransactionStep(types, amounts, descriptions, dates, tabs) ==
    \E transactionType \in types, amount \in amounts, description \in descriptions,
       date \in dates, tab \in tabs :
        AddTransaction(transactionType, amount, description, date, tab)

EditTransactionStep(types, amounts, descriptions, dates, tabs) ==
    \E transactionId \in 0 .. MaxId, transactionType \in types, amount \in amounts,
       description \in descriptions, date \in dates, tab \in tabs :
        EditTransaction(transactionId, transactionType, amount, description, date, tab)

DeleteTransactionStep(tabs) ==
    \E transactionId \in 0 .. MaxId, tab \in tabs : DeleteTransaction(transactionId, tab)

SetUserSpecifiedDeductionStep(dates, amounts, tabs) ==
    \E date \in dates, amount \in amounts, tab \in tabs :
        SetUserSpecifiedDeduction(date, amount, tab)

AddOpeningBalanceStep ==
    \E openingBalance \in OpeningBalances, tab \in Tabs :
        AddOpeningBalance(openingBalance, tab)

UpdateOpeningBalanceStep ==
    \E openingBalance \in OpeningBalances, tab \in Tabs :
        UpdateOpeningBalance(openingBalance, tab)

ClearTransactionDataStep == \E tab \in Tabs : ClearTransactionData(tab)

GetDailyTrackingStep(dates) == \E date \in dates : GetDailyTracking(date)

\* The whole engine, from a fresh installation, on one day's inflows and
\* savings withdrawals.  TransactionForm is on the Add tab; the edit dialog,
\* the delete button and the deduction input are on tabs that mount a list;
\* the opening balance form and the header's clear button are on every tab.
Next ==
    \/ AddTransactionStep({"cashIn", "savingsOut"}, Amounts, {Null}, {DayLen}, {"add"})
    \/ EditTransactionStep({"cashIn", "savingsOut"}, {-50, 0}, {"rent"}, {DayLen},
                           {"history"})
    \/ DeleteTransactionStep({"history"})
    \/ SetUserSpecifiedDeductionStep({DayLen}, {40}, {"history"})
    \/ AddOpeningBalanceStep
    \/ UpdateOpeningBalanceStep
    \/ ClearTransactionDataStep
    \/ GetDailyTrackingStep({DayLen})
    \/ GetBalances
    \/ GetAllTransactions
    \/ GetOpeningBalance

Spec == Init /\ [][Next]_vars

\* The ledger and its 10% savings cache under the transaction mutations, the
\* user deduction and the Daily Tracker: signed amounts on two days, the
\* tracker called with every date.
NextLedger ==
    \/ AddTransactionStep({"cashIn", "upiIn", "cashOut"}, {-50, 150}, {Null},
                          {DayLen + 1, 2 * DayLen}, {"add"})
    \/ EditTransactionStep({"cashIn", "cashOut"}, {-50, 150}, {Null},
                           {DayLen + 1, 2 * DayLen}, {"history"})
    \/ DeleteTransactionStep({"history"})
    \/ SetUserSpecifiedDeductionStep({DayLen}, {40}, {"history"})
    \/ GetDailyTrackingStep(Dates)
    \/ GetAllTransactions

SpecLedger == Init /\ [][NextLedger]_vars

\* Stored states for the balance reads: every list of up to MaxTxns
\* transactions the add path produces (newest first, ids counting down to 0)
\* with the 10% savings it recalculates, with and without user deductions and
\* an opening balance; nothing fetched yet.
TransactionShapes ==
    [transactionType : TransactionType, amount : {-50, 150}, date : {DayLen, 2 * DayLen}]

StoredTransactionLists ==
    UNION {{[i \in 1 .. n |->
                 [id |-> n - i, transactionType |-> shape[i].transactionType,
                  amount |-> shape[i].amount, description |-> "",
                  date |-> shape[i].date]] :
            shape \in [1 .. n -> TransactionShapes]} : n \in 1 .. MaxTxns}

InitBalances ==
    /\ \/ lsTransactions = None /\ lsTenPercentSavings = None
       \/ \E transactions \in StoredTransactionLists :
              /\ lsTransactions = Some(transactions)
              /\ lsTenPercentSavings = Some(RecalculateTenPercentSavings(transactions))
    /\ lsUserDeductions \in {None, Some((DayLen :> 40) @@ ((2 * DayLen) :> 25))}
    /\ lsOpeningBalance \in {None} \cup {Some(openingBalance) :
                                            openingBalance \in OpeningBalances}
    /\ qTransactions = None
    /\ qOpeningBalance = None
    /\ lastOp = Op("init", "", -1, 0, 0, None, None, FALSE)
    /\ maxAssignedId = Len(GetLocalTransactions(lsTransactions)) - 1
    /\ OutsideInit

NextBalances ==
    \/ GetBalances
    \/ GetAllTransactions
    \/ GetOpeningBalance

SpecBalances == InitBalances /\ [][NextBalances]_vars

----------------------------------------------------------------------------
\* The stored state, as the claims speak of it.

StoredTransactions == GetLocalTransactions(lsTransactions)

StoredOpeningBalance == GetLocalOpeningBalance(lsOpeningBalance)

StoredTenPercentSavings == GetLocalTenPercentSavings(lsTenPercentSavings)

StoredUserDeductions == GetLocalUserDeductions(lsUserDeductions)

StoredIds == {t.id : t \in Range(StoredTransactions)}

Lookup(m, k) == IF k \in DOMAIN m THEN m[k] ELSE 0

DayKeys == {StartOfDay(date) : date \in Dates}

InflowsOnDay(dayKey) ==
    SumOfTypes(Filter(StoredTransactions,
                      {t \in Range(StoredTransactions) : StartOfDay(t.date) = dayKey}),
               {"cashIn", "upiIn"})

\* C1: after any sequence of add, edit, delete, setUserSpecifiedDeduction and
\* getDailyTracking, the stored tenPercentSavings of every day key (0 when the
\* key is absent) is the Deduction Calculator of the sum of the cashIn and
\* upiIn amounts stored on that day.
C1_SavingsCacheMatchesInflows ==
    \A dayKey \in DayKeys :
        Lookup(StoredTenPercentSavings, dayKey)
            = CalculateTenPercentDeduction(InflowsOnDay(dayKey))

\* A delete has recalculated the cache and left a day with a 10% saving.
C1_Witness ==
    /\ lastOp.op = "deleteTransaction"
    /\ lastOp.error = ""
    /\ \E dayKey \in DayKeys : Lookup(StoredTenPercentSavings, dayKey) > 0

ReadBalances == lastOp.balances[1]

\* C2: cashBalance = (cashIn amounts + opening cashBalance) - cashOut amounts
\* - all tenPercentSavings values - all userDeduction values - savingsOut
\* amounts; the opening savings and user deductions do not enter it.
C2_CashBalanceFormula ==
    lastOp.op = "getBalances" =>
        ReadBalances.cashBalance
            = (SumOfTypes(StoredTransactions, {"cashIn"})
                   + StoredOpeningBalance.cashBalance)
              - SumOfTypes(StoredTransactions, {"cashOut"})
              - SumValues(StoredTenPercentSavings)
              - SumValues(StoredUserDeductions)
              - SumOfTypes(StoredTransactions, {"savingsOut"})

\* C3: savingsBalance = opening savings + all tenPercentSavings values
\* - savingsOut amounts, the opening savings counted once.
C3_SavingsBalanceFormula ==
    lastOp.op = "getBalances" =>
        ReadBalances.savingsBalance
            = (StoredOpeningBalance.savings + SumValues(StoredTenPercentSavings))
              - SumOfTypes(StoredTransactions, {"savingsOut"})

\* C4: totalBalance = cashBalance + upiBalance of the same read, and
\* upiBalance = (upiIn amounts + opening upiBalance) - upiOut amounts.
C4_TotalBalanceFormula ==
    lastOp.op = "getBalances" =>
        /\ ReadBalances.totalBalance = ReadBalances.cashBalance + ReadBalances.upiBalance
        /\ ReadBalances.upiBalance
               = (SumOfTypes(StoredTransactions, {"upiIn"})
                      + StoredOpeningBalance.upiBalance)
                 - SumOfTypes(StoredTransactions, {"upiOut"})

\* A read over upiIn and upiOut transactions and an opening UPI balance, with
\* savings and deductions balances that are not zero.
C4_Witness ==
    /\ lastOp.op = "getBalances"
    /\ \E t \in Range(StoredTransactions) : t.transactionType = "upiIn"
    /\ \E t \in Range(StoredTransactions) : t.transactionType = "upiOut"
    /\ StoredOpeningBalance.upiBalance # 0
    /\ ReadBalances.savingsBalance # 0
    /\ ReadBalances.deductionsBalance # 0
    /\ qTransactions # None

\* C5: addTransaction and editTransaction with amount 0 fail and leave the
\* transaction list, both override maps, the opening balance and the next id
\* as they were; a non-zero amount of either sign is not rejected for its amount.
C5_ZeroAmountRejected ==
    [][lastOp'.op \in {"addTransaction", "editTransaction"} =>
           /\ (lastOp'.amount = 0) <=> (lastOp'.error = AmountError)
           /\ lastOp'.amount = 0 =>
                  /\ UNCHANGED <<lsTransactions, lsUserDeductions, lsTenPercentSavings,
                                 lsOpeningBalance>>
                  /\ NewId(StoredTransactions)' = NewId(StoredTransactions)
           /\ (lastOp'.amount # 0 /\ lastOp'.op = "addTransaction") => lastOp'.error = ""
           /\ (lastOp'.amount # 0 /\ lastOp'.id \in StoredIds) => lastOp'.error = ""]_vars

\* An add with amount 0 has failed on a store that holds a transaction, a
\* user deduction and an opening balance.
C5_Witness ==
    /\ lastOp.op = "addTransaction"
    /\ lastOp.amount = 0
    /\ lastOp.error = AmountError
    /\ StoredTransactions # <<>>
    /\ lsUserDeductions # None
    /\ StoredOpeningBalance.cashBalance # 0

\* C6 as claimed: editTransaction and deleteTransaction with an id that is not
\* in the store fail with the not-found error and leave the storage unchanged.
C6_AbsentIdNotFound ==
    [][(lastOp'.op \in {"editTransaction", "deleteTransaction"}
            /\ lastOp'.id \notin StoredIds)
           => (/\ lastOp'.error = NotFoundError
               /\ UNCHANGED <<lsTransactions, lsUserDeductions, lsTenPercentSavings,
                              lsOpeningBalance>>)]_vars

\* C6 as amended: they fail and leave the storage unchanged; the error is the
\* not-found error, except that editTransaction with amount 0 fails with the
\* zero-amount error, whether or not the id is in the store.
C6_AbsentIdFails ==
    [][(lastOp'.op \in {"editTransaction", "deleteTransaction"}
            /\ lastOp'.id \notin StoredIds)
           => (/\ lastOp'.error = IF lastOp'.op = "editTransaction" /\ lastOp'.amount = 0
                                     THEN AmountError ELSE NotFoundError
               /\ UNCHANGED <<lsTransactions, lsUserDeductions, lsTenPercentSavings,
                              lsOpeningBalance>>)]_vars

\* An edit with an id that is not stored has failed on a store that holds
\* another transaction, a 10% saving, a user deduction and an opening balance.
C6_Witness ==
    /\ lastOp.op = "editTransaction"
    /\ lastOp.error = NotFoundError
    /\ lastOp.id \notin StoredIds
    /\ StoredTransactions # <<>>
    /\ SumValues(StoredTenPercentSavings) > 0
    /\ lsUserDeductions # None
    /\ StoredOpeningBalance.cashBalance # 0

\* C7: no two stored transactions have the same id.
C7_IdsUnique ==
    \A i, j \in 1 .. Len(StoredTransactions) :
        i # j => StoredTransactions[i].id # StoredTransactions[j].id

\* An add has followed the deletion of the oldest of two transactions.
C7_Witness ==
    /\ lastOp.op = "addTransaction"
    /\ lastOp.error = ""
    /\ Len(StoredTransactions) = 2
    /\ StoredTransactions[2].id > 0

\* C8: every id addTransaction assigns is greater than every id assigned
\* since the last clear, deleted transactions' ids included.
C8_IdsNeverReused ==
    [][(lastOp'.op = "addTransaction" /\ lastOp'.error = "")
           => lastOp'.id > maxAssignedId]_vars

IsZeroBalance(balance) ==
    /\ balance.cashBalance = 0
    /\ balance.upiBalance = 0
    /\ balance.savingsBalance = 0
    /\ balance.deductionsBalance = 0
    /\ balance.totalBalance = 0

\* C9: once clearAll has completed, the getBalances read it triggers and the
\* next one return zero balances, getOpeningBalance returns the zero
\* snapshot, both override maps are empty and the next id is 0.
C9_ClearResetsEverything ==
    lastOp.op = "clearTransactionData" =>
        /\ lastOp.balances # None => IsZeroBalance(lastOp.balances[1])
        /\ IsZeroBalance(BalancesQueryFn(qTransactions, qOpeningBalance, lsTransactions,
                                         lsOpeningBalance, lsTenPercentSavings,
                                         lsUserDeductions))
        /\ StoredOpeningBalance = ZeroOpeningBalance
        /\ StoredUserDeductions = EmptyMap
        /\ StoredTenPercentSavings = EmptyMap
        /\ NewId(StoredTransactions) = 0

----------------------------------------------------------------------------
\* The Deduction Calculator.

MaxTotal == 1100

DaywiseDeductionTiesDown(total) ==
    IF total <= 0 THEN 0
    ELSE LET tenPercent == BigIntDiv(total * 10, 100)
             remainder  == BigIntRem(tenPercent, 10)
         IN  IF remainder > 5 THEN tenPercent + (10 - remainder)
                              ELSE tenPercent - remainder

\* calculateTenPercentDeduction of DaywiseTransactions.
DaywiseCalculateTenPercentDeduction(total) ==
    IF total <= 0 THEN 0
    ELSE LET tenPercent == BigIntDiv(total * 10, 100)
             remainder  == BigIntRem(tenPercent, 10)
         IN  IF remainder >= 5 THEN tenPercent + (10 - remainder)
                               ELSE tenPercent - remainder

\* The frontend's calculator applied to the total drawn.
DaywiseDeduction ==
    /\ report.name = "none"
    /\ report' = Report("daywiseDeduction", report.input,
                        Some(DaywiseCalculateTenPercentDeduction(report.input)))
    /\ UNCHANGED <<lsTransactions, lsUserDeductions, lsTenPercentSavings, lsOpeningBalance,
                   qTransactions, qOpeningBalance, lastOp, maxAssignedId, actor, backupFile, auth>>

\* The actor's calculator applied to the total drawn; its argument is a Nat.
ActorDeduction ==
    /\ report.name = "none"
    /\ report.input >= 0
    /\ report' = Report("actorDeduction", report.input,
                        Some(CalculateTenPercentDeduction(report.input)))
    /\ UNCHANGED <<lsTransactions, lsUserDeductions, lsTenPercentSavings, lsOpeningBalance,
                   qTransactions, qOpeningBalance, lastOp, maxAssignedId, actor, backupFile, auth>>

InitCalculator ==
    /\ EngineInit
    /\ actor = ActorInit
    /\ backupFile = None
    /\ auth = SignedIn
    /\ \E total \in (-MaxTotal) .. MaxTotal : report = Report("none", total, None)

NextCalculator ==
    \/ DaywiseDeduction
    \/ ActorDeduction

SpecCalculator == InitCalculator /\ [][NextCalculator]_vars

\* C11: the Deduction Calculator returns 0 for a total <= 0 and otherwise
\* floor(total*10/100) rounded to the nearest multiple of 10, a remainder of
\* exactly 5 rounded up; the result is a non-negative multiple of 10.
C11_CalculatorRounds ==
    report.name \in {"daywiseDeduction", "actorDeduction"} =>
        LET total  == report.input
            result == report.output[1]
            raw    == (total * 10) \div 100
        IN  /\ result >= 0
            /\ result % 10 = 0
            /\ total <= 0 => result = 0
            /\ total > 0 => result - 5 <= raw /\ raw < result + 5

\* The frontend's calculator has rounded a remainder of exactly 5 up: 1050 -> 110.
C11_Witness ==
    /\ report.name = "daywiseDeduction"
    /\ report.input = 1050
    /\ report.output = Some(110)

\* The sum of the amounts the stored transactions of the given types have on a day.
SumOnDay(dayKey, types) ==
    SumOfTypes(Filter(StoredTransactions,
                      {t \in Range(StoredTransactions) : StartOfDay(t.date) = dayKey}),
               types)

----------------------------------------------------------------------------
\* The backend actor.

DaysPerMonth == 2

MonthsPerYear == 2

\* The calendar of the model: months of DaysPerMonth days, years of
\* MonthsPerYear months, tick 0 the start of month 1 of year 0.
TicksPerMonth == DayLen * DaysPerMonth

YearOf(date) == (date \div TicksPerMonth) \div MonthsPerYear

MonthOf(date) == ((date \div TicksPerMonth) % MonthsPerYear) + 1

\* A day of month 1 and a day of month 2 of year 0.
ActorDates == {DayLen, TicksPerMonth + DayLen}

Append1(s, e) == s \o <<e>>

\* What a query returns to a caller without a role: it traps.
Trap == None

\* calculateDailyTotals of the actor.
CalculateDailyTotals(transactions, userSpecifiedDeduction) ==
    LET totalDailyTransactions == SumOfTypes(transactions, TransactionType)
    IN  IF totalDailyTransactions > 0
        THEN LET tenPercent == (totalDailyTransactions * 10) \div 100
                 remainder  == tenPercent % 10
                 dailyTenPercentDeduction ==
                     IF remainder >= 5 THEN tenPercent + (10 - remainder)
                                       ELSE tenPercent - remainder
                 totalDeductions == dailyTenPercentDeduction + userSpecifiedDeduction
             IN  [totalDailyTransactions |-> totalDailyTransactions,
                  dailyTenPercentDeduction |-> dailyTenPercentDeduction,
                  userSpecifiedDailyDeduction |-> userSpecifiedDeduction,
                  totalDailyTransactionsWithDeduction |->
                      totalDailyTransactions - totalDeductions]
        ELSE [totalDailyTransactions |-> 0,
              dailyTenPercentDeduction |-> 0,
              userSpecifiedDailyDeduction |-> userSpecifiedDeduction,
              totalDailyTransactionsWithDeduction |-> 0 - userSpecifiedDeduction]

\* getUserSpecifiedDeductionForDate of the actor.
GetUserSpecifiedDeductionForDate(date) ==
    IF date \in DOMAIN actor.userSpecifiedDeductions
    THEN actor.userSpecifiedDeductions[date] ELSE 0

IsInMonthOfCalendar(timestamp, year, month) ==
    YearOf(timestamp) = year /\ MonthOf(timestamp) = month

\* isInMonth of the actor: it compares year and month - 1 with themselves.
IsInMonth(timestamp, year, month) ==
    LET monthWithOffset == month - 1
    IN  year = year /\ monthWithOffset = monthWithOffset

\* updateSavingsBalance and updateDeductionsBalance, called with isAddition true.
UpdatedOpeningBalance(openingBalance, transactionType, amount) ==
    CASE transactionType = "savingsOut" ->
             [openingBalance EXCEPT
                  !.savings = IF @ >= amount THEN @ - amount ELSE 0]
      [] transactionType = "deductionsOut" ->
             [openingBalance EXCEPT
                  !.userDeductions = IF @ >= amount THEN @ - amount ELSE 0]
      [] OTHER -> openingBalance

ActorFrame ==
    UNCHANGED <<lsTransactions, lsUserDeductions, lsTenPercentSavings, lsOpeningBalance,
                qTransactions, qOpeningBalance, lastOp, maxAssignedId, backupFile, auth>>

\* getBalances of the actor: what it computes from the actor's state a.
ActorBalances(a) ==
    LET cashIn == SumOfTypes(a.transactions, {"cashIn"})
        cashOut == SumOfTypes(a.transactions, {"cashOut"})
        upiIn == SumOfTypes(a.transactions, {"upiIn"})
        upiOut == SumOfTypes(a.transactions, {"upiOut"})
        savingsOut == SumOfTypes(a.transactions, {"savingsOut"})
        deductionsOut == SumOfTypes(a.transactions, {"deductionsOut"})
        cumulativeTenPercentSavings == SumValues(a.tenPercentSavings)
        cumulativeUserSpecifiedDeductions == SumValues(a.userSpecifiedDeductions)
        cashBalance == a.persistentOpeningBalance.cashBalance + cashIn - cashOut
                           - cumulativeTenPercentSavings
                           - cumulativeUserSpecifiedDeductions - savingsOut
        upiBalance == a.persistentOpeningBalance.upiBalance + upiIn - upiOut
        savingsBalance == a.persistentOpeningBalance.savings
                              + cumulativeTenPercentSavings - savingsOut
        deductionsBalance == a.persistentOpeningBalance.userDeductions
                                 + cumulativeUserSpecifiedDeductions - deductionsOut
        totalBalance == cashBalance + upiBalance + savingsBalance + deductionsBalance
    IN  [cashIn |-> cashIn, cashOut |-> cashOut, upiIn |-> upiIn, upiOut |-> upiOut,
         cashBalance |-> cashBalance, upiBalance |-> upiBalance,
         savingsBalance |-> savingsBalance, deductionsBalance |-> deductionsBalance,
         totalBalance |-> totalBalance, excludedTotalBalance |-> totalBalance]

\* What a mutation of the actor returned, with the transaction it acted on
\* (before the call, None if none) and what getBalances gave before the call.
Returned(result, id, previous) ==
    Some([result |-> result, id |-> id, previous |-> previous,
          balancesBefore |-> ActorBalances(actor)])

\* addTransaction of the actor, called by an authenticated principal with a date.
ActorAddTransaction(transactionType, amount, description, date) ==
    /\ Len(actor.transactions) < MaxTxns
    /\ actor.nextTransactionId <= MaxId
    /\ IF amount = 0
       THEN /\ actor' = [actor EXCEPT !.registered = TRUE]
            /\ report' = Report("actorAddTransaction", amount, Returned("Failed", -1, None))
       ELSE LET transaction ==
                    [id |-> actor.nextTransactionId,
                     transactionType |-> transactionType,
                     amount |-> amount,
                     description |-> DescriptionOrEmpty(description),
                     date |-> date]
            IN  /\ actor' =
                       [actor EXCEPT
                            !.registered = TRUE,
                            !.transactions = Append1(@, transaction),
                            !.nextTransactionId = @ + 1,
                            !.persistentOpeningBalance =
                                UpdatedOpeningBalance(@, transactionType, amount)]
                /\ report' = Report("actorAddTransaction", amount,
                                    Returned("Success", actor.nextTransactionId, None))
    /\ ActorFrame

\* setUserSpecifiedDeduction of the actor.
ActorSetUserSpecifiedDeduction(date, amount) ==
    /\ actor' = [actor EXCEPT !.registered = TRUE,
                              !.userSpecifiedDeductions = MapSet(@, date, amount)]
    /\ report' = Report("actorSetUserSpecifiedDeduction", date, Some(amount))
    /\ ActorFrame

\* getDailyTracking of the actor.
ActorGetDailyTracking(date) ==
    /\ report' =
           Report("actorGetDailyTracking", date,
                  IF ~actor.registered THEN Trap
                  ELSE LET filteredTransactions ==
                               Filter(actor.transactions,
                                      {t \in Range(actor.transactions) : t.date = date})
                       IN  Some(CalculateDailyTotals(
                                    filteredTransactions,
                                    GetUserSpecifiedDeductionForDate(date))))
    /\ UNCHANGED actor
    /\ ActorFrame

\* getMonthlyTransactions of the actor.
ActorGetMonthlyTransactions(year, month, transactionType) ==
    /\ report' =
           Report("actorGetMonthlyTransactions",
                  [year |-> year, month |-> month, transactionType |-> transactionType],
                  IF ~actor.registered THEN Trap
                  ELSE LET filteredTransactions ==
                               Filter(actor.transactions,
                                      {t \in Range(actor.transactions) :
                                           /\ t.transactionType = transactionType
                                           /\ IsInMonth(t.date, year, month)})
                       IN  Some([transactions |-> filteredTransactions,
                                 totalAmount |->
                                     SumOfTypes(filteredTransactions, TransactionType),
                                 transactionCount |-> Len(filteredTransactions)]))
    /\ UNCHANGED actor
    /\ ActorFrame

InitActor ==
    /\ EngineInit
    /\ OutsideInit

NextActor ==
    \/ \E transactionType \in {"cashIn", "upiIn", "cashOut"}, amount \in {0, 150},
          date \in ActorDates :
           ActorAddTransaction(transactionType, amount, Null, date)
    \/ ActorSetUserSpecifiedDeduction(DayLen, 40)
    \/ \E date \in ActorDates : ActorGetDailyTracking(date)
    \/ \E month \in 1 .. 2, transactionType \in {"cashIn", "cashOut"} :
           ActorGetMonthlyTransactions(0, month, transactionType)

SpecActor == InitActor /\ [][NextActor]_vars

\* The actor's transactions dated exactly as given.
ActorTransactionsOn(date) ==
    Filter(actor.transactions, {t \in Range(actor.transactions) : t.date = date})

\* C13: the actor's getDailyTracking(date) reports the sum of only the cashIn
\* and upiIn amounts of the date as totalDailyTransactions, and the 10%
\* deduction of that sum; outflows of the date enter neither.
C13_ActorTrackerCountsInflowsOnly ==
    (report.name = "actorGetDailyTracking" /\ report.output # Trap) =>
        LET inflow == SumOfTypes(ActorTransactionsOn(report.input), {"cashIn", "upiIn"})
        IN  /\ report.output[1].totalDailyTransactions = inflow
            /\ report.output[1].dailyTenPercentDeduction
                   = CalculateTenPercentDeduction(inflow)

\* C16: the actor's getMonthlyTransactions(year, month, type) returns exactly
\* the stored transactions of the type dated in that year and month, with
\* their amounts' sum as totalAmount and their number as transactionCount.
C16_ActorMonthlyFiltersByMonth ==
    (report.name = "actorGetMonthlyTransactions" /\ report.output # Trap) =>
        LET expected ==
                Filter(actor.transactions,
                       {t \in Range(actor.transactions) :
                            /\ t.transactionType = report.input.transactionType
                            /\ IsInMonthOfCalendar(t.date, report.input.year,
                                                   report.input.month)})
        IN  /\ report.output[1].transactions = expected
            /\ report.output[1].totalAmount = SumOfTypes(expected, TransactionType)
            /\ report.output[1].transactionCount = Len(expected)

----------------------------------------------------------------------------
\* The reporters of the list views.

RECURSIVE InsertByDateDescending(_, _)
\* One step of Array.prototype.sort with (a, b) => Number(b.date) - Number(a.date):
\* the sort is stable, so a row goes after the rows dated the same or later.
InsertByDateDescending(sorted, row) ==
    IF sorted = <<>> THEN <<row>>
    ELSE IF Head(sorted).date >= row.date
         THEN <<Head(sorted)>> \o InsertByDateDescending(Tail(sorted), row)
         ELSE <<row>> \o sorted

RECURSIVE SortByDateDescending(_)
SortByDateDescending(rows) ==
    IF rows = <<>> THEN <<>>
    ELSE InsertByDateDescending(SortByDateDescending(SubSeq(rows, 1, Len(rows) - 1)),
                                rows[Len(rows)])

RECURSIVE KeysInInsertionOrder(_)
\* The keys of a Map filled in the order of the sequence.
KeysInInsertionOrder(keys) ==
    IF keys = <<>> THEN <<>>
    ELSE LET before == KeysInInsertionOrder(SubSeq(keys, 1, Len(keys) - 1))
             last   == keys[Len(keys)]
         IN  IF last \in Range(before) THEN before ELSE Append1(before, last)

EndOfDayAtMidnight(date) == StartOfDay(date)

\* setHours(23, 59, 59, 999): the last tick of the date's day.
EndOfDay(date) == StartOfDay(date) + DayLen - 1

\* The rounding of a FilterTransactions row: no test of the total's sign.
FilterRowDeduction(totalTransaction) ==
    LET tenPercent == BigIntDiv(totalTransaction * 10, 100)
        remainder  == BigIntRem(tenPercent, 10)
    IN  IF remainder >= 5 THEN tenPercent + (10 - remainder) ELSE tenPercent - remainder

\* filterData of FilterTransactions.
FilterData(transactions, startDate, endDate, userDeductions) ==
    LET startTimestamp == StartOfDay(startDate)
        endTimestamp   == EndOfDay(endDate)
        inRange ==
            Filter(transactions,
                   {t \in Range(transactions) :
                        t.date >= startTimestamp /\ t.date <= endTimestamp})
        dateKeys ==
            KeysInInsertionOrder([i \in 1 .. Len(inRange) |-> StartOfDay(inRange[i].date)])
        OfDay(dateKey) ==
            Filter(inRange, {t \in Range(inRange) : StartOfDay(t.date) = dateKey})
        result ==
            [i \in 1 .. Len(dateKeys) |->
                 LET cashIn == SumOfTypes(OfDay(dateKeys[i]), {"cashIn"})
                     upiIn  == SumOfTypes(OfDay(dateKeys[i]), {"upiIn"})
                 IN  [date |-> dateKeys[i],
                      cashIn |-> cashIn,
                      upiIn |-> upiIn,
                      totalTransaction |-> cashIn + upiIn,
                      tenPercentDeduction |-> FilterRowDeduction(cashIn + upiIn),
                      userAmountDeduction |-> Lookup(userDeductions, dateKeys[i])]]
    IN  SortByDateDescending(result)

RECURSIVE SumField(_, _)
SumField(rows, field) ==
    IF rows = <<>> THEN 0 ELSE rows[1][field] + SumField(Tail(rows), field)

\* totalStats of FilterTransactions.
TotalStats(filterData) ==
    [totalCashIn |-> SumField(filterData, "cashIn"),
     totalUpiIn |-> SumField(filterData, "upiIn"),
     totalTransactions |-> SumField(filterData, "totalTransaction"),
     totalDeductions |-> SumField(filterData, "tenPercentDeduction")
                             + SumField(filterData, "userAmountDeduction")]

\* What a list view leaves unchanged: it reads localStorage and refetches
\* ['transactions'] when it mounts.
ViewFrame ==
    /\ qTransactions' = Some(GetLocalTransactions(lsTransactions))
    /\ UNCHANGED <<lsTransactions, lsUserDeductions, lsTenPercentSavings, lsOpeningBalance,
                   qOpeningBalance, maxAssignedId, actor, backupFile, auth>>

\* The rows and the totals the Filter tab last computed.
FilterRows == report.output[1].filterData

\* C14: every row of the date-range breakdown has the Deduction Calculator of
\* its totalInflow as tenPercentDeduction, 0 for a zero or negative total, and
\* the user deduction stored under the row's day key, or 0, as userDeduction.
C14_RangeRowsUseCalculator ==
    lastOp.op = "filterTransactions" =>
        \A i \in 1 .. Len(FilterRows) :
            /\ FilterRows[i].tenPercentDeduction
                   = DaywiseCalculateTenPercentDeduction(FilterRows[i].totalTransaction)
            /\ FilterRows[i].userAmountDeduction
                   = Lookup(StoredUserDeductions, FilterRows[i].date)

\* C15: the per-day totalInflow values of the date-range breakdown sum to the
\* sum of the cashIn and upiIn amounts dated from the start day to the end
\* day; no inflow of the range is dropped or counted in two rows.
C15_RangeTotalsAddUp ==
    lastOp.op = "filterTransactions" =>
        LET inRange ==
                {t \in Range(StoredTransactions) :
                     /\ StartOfDay(t.date) >= StartOfDay(report.input.startDate)
                     /\ StartOfDay(t.date) <= StartOfDay(report.input.endDate)}
            expected == SumOfTypes(Filter(StoredTransactions, inRange), {"cashIn", "upiIn"})
        IN  /\ SumField(FilterRows, "totalTransaction") = expected
            /\ report.output[1].totalStats.totalTransactions = expected
            /\ \A i, j \in 1 .. Len(FilterRows) :
                   FilterRows[i].date = FilterRows[j].date => i = j

\* A range over two months has given two rows with inflows, one in
\* each month.
C15_Witness ==
    /\ lastOp.op = "filterTransactions"
    /\ Len(FilterRows) = 2
    /\ FilterRows[1].totalTransaction = 150
    /\ FilterRows[2].totalTransaction = 150
    /\ report.output[1].totalStats.totalTransactions = 300

----------------------------------------------------------------------------
\* The derived rows.

\* getDerivedRowsForDate of utils/derivedTransactions.ts, given the Date and
\* the two localStorage items it reads.
GetDerivedRowsForDate(date, transactionsItem, userDeductionsItem) ==
    LET normalizedDate == StartOfDay(date)
        userDeductions == GetLocalUserDeductions(userDeductionsItem)
        transactions   == GetLocalTransactions(transactionsItem)
        dateTransactions ==
            Filter(transactions,
                   {t \in Range(transactions) : StartOfDay(t.date) = StartOfDay(date)})
        combinedTotal == SumOfTypes(dateTransactions, {"cashIn"})
                             + SumOfTypes(dateTransactions, {"upiIn"})
        tenPercent == BigIntDiv(combinedTotal * 10, 100)
        remainder  == BigIntRem(tenPercent, 10)
        tenPercentDeduction ==
            IF remainder >= 5 THEN tenPercent + (10 - remainder) ELSE tenPercent - remainder
        userDeduction == Lookup(userDeductions, normalizedDate)
    IN  (IF tenPercentDeduction > 0
         THEN <<[id |-> <<"derived-10percent", normalizedDate>>,
                 derivedType |-> "10% Savings",
                 amount |-> tenPercentDeduction,
                 date |-> normalizedDate]>>
         ELSE <<>>)
        \o (IF userDeduction > 0
            THEN <<[id |-> <<"derived-cheeti", normalizedDate>>,
                    derivedType |-> "Cheeti Deduction",
                    amount |-> userDeduction,
                    date |-> normalizedDate]>>
            ELSE <<>>)

\* getDerivedRowsForDate of the utility that reads the 10% savings cache,
\* given the timestamp and the two localStorage items it reads.
GetDerivedRowsForDateCached(dateNs, tenPercentSavingsItem, userDeductionsItem) ==
    LET tenPercentSavings == GetLocalTenPercentSavings(tenPercentSavingsItem)
        userDeductions    == GetLocalUserDeductions(userDeductionsItem)
        savingsAmount == Lookup(tenPercentSavings, dateNs)
        cheetiAmount  == Lookup(userDeductions, dateNs)
    IN  (IF savingsAmount # 0 /\ savingsAmount > 0
         THEN <<[isDerived |-> TRUE,
                 derivedType |-> "10% Savings",
                 date |-> dateNs,
                 amount |-> -savingsAmount,
                 dateDisplay |-> dateNs]>>
         ELSE <<>>)
        \o (IF cheetiAmount # 0 /\ cheetiAmount > 0
            THEN <<[isDerived |-> TRUE,
                    derivedType |-> "Cheeti Deduction",
                    date |-> dateNs,
                    amount |-> -cheetiAmount,
                    dateDisplay |-> dateNs]>>
            ELSE <<>>)

\* What a call of a derived-row utility leaves unchanged.
UtilityFrame ==
    UNCHANGED <<lsTransactions, lsUserDeductions, lsTenPercentSavings, lsOpeningBalance,
                qTransactions, qOpeningBalance, maxAssignedId, actor, backupFile, auth>>

\* A call of getDerivedRowsForDate that computes the 10% amount.
CallGetDerivedRowsForDate(date) ==
    /\ report' = Report("getDerivedRowsForDate", date,
                        Some(GetDerivedRowsForDate(date, lsTransactions, lsUserDeductions)))
    /\ lastOp' = Op("getDerivedRowsForDate", "", -1, 0, date, None, None, FALSE)
    /\ UtilityFrame

\* A call of getDerivedRowsForDate that reads the cached 10% amount.
CallGetDerivedRowsForDateCached(dateNs) ==
    /\ report' = Report("getDerivedRowsForDateCached", dateNs,
                        Some(GetDerivedRowsForDateCached(dateNs, lsTenPercentSavings,
                                                         lsUserDeductions)))
    /\ lastOp' = Op("getDerivedRowsForDateCached", "", -1, 0, dateNs, None, None, FALSE)
    /\ UtilityFrame

RECURSIVE SetToSeqDescending(_)
\* Array.from(set).sort(descending): the numbers of a set, greatest first.
SetToSeqDescending(numbers) ==
    IF numbers = {} THEN <<>>
    ELSE LET greatest == CHOOSE n \in numbers : \A m \in numbers : m <= n
         IN  <<greatest>> \o SetToSeqDescending(numbers \ {greatest})

RECURSIVE Flatten(_)
\* result.push(...rows) for each element of a sequence of row lists.
Flatten(lists) ==
    IF lists = <<>> THEN <<>> ELSE Head(lists) \o Flatten(Tail(lists))

\* The first tick of a month (month from 1) and of a year of the calendar.
MonthStart(year, month) == (year * MonthsPerYear + (month - 1)) * TicksPerMonth

RECURSIVE DerivedRowsOfDays(_, _, _, _)
\* getDerivedRowsForDateRange of utils/derivedTransactions.ts: it visits
\* every day from the start day to the end day.
DerivedRowsOfDays(current, end, transactionsItem, userDeductionsItem) ==
    IF current > end THEN <<>>
    ELSE GetDerivedRowsForDate(current, transactionsItem, userDeductionsItem)
             \o DerivedRowsOfDays(current + DayLen, end, transactionsItem,
                                  userDeductionsItem)

GetDerivedRowsForDateRange(startDate, endDate, transactionsItem, userDeductionsItem) ==
    DerivedRowsOfDays(StartOfDay(startDate), StartOfDay(endDate), transactionsItem,
                      userDeductionsItem)

\* getDerivedRowsForMonth and getDerivedRowsForYear of utils/derivedTransactions.ts.
GetDerivedRowsForMonth(year, month, transactionsItem, userDeductionsItem) ==
    GetDerivedRowsForDateRange(MonthStart(year, month),
                               MonthStart(year, month) + TicksPerMonth - DayLen,
                               transactionsItem, userDeductionsItem)

GetDerivedRowsForYear(year, transactionsItem, userDeductionsItem) ==
    GetDerivedRowsForDateRange(MonthStart(year, 1),
                               MonthStart(year + 1, 1) - DayLen,
                               transactionsItem, userDeductionsItem)

\* getDerivedRowsForMonth of the utility that reads the cache; month counts from 0.
GetDerivedRowsForMonthCached(year, month, tenPercentSavingsItem, userDeductionsItem) ==
    LET allDateKeys == DOMAIN GetLocalTenPercentSavings(tenPercentSavingsItem)
                           \cup DOMAIN GetLocalUserDeductions(userDeductionsItem)
        ofMonth == {dateKey \in allDateKeys :
                        YearOf(dateKey) = year /\ MonthOf(dateKey) - 1 = month}
        keys == SetToSeqDescending(ofMonth)
    IN  SortByDateDescending(
            Flatten([i \in 1 .. Len(keys) |->
                         GetDerivedRowsForDateCached(keys[i], tenPercentSavingsItem,
                                                     userDeductionsItem)]))

\* Rows tagged real or derived, sorted by the date of their data.
SortTaggedByDateDescending(rows) ==
    LET keyed  == [i \in 1 .. Len(rows) |-> [date |-> rows[i].data.date, row |-> rows[i]]]
        sorted == SortByDateDescending(keyed)
    IN  [i \in 1 .. Len(sorted) |-> sorted[i].row]

Tagged(type, rows) == [i \in 1 .. Len(rows) |-> [type |-> type, data |-> rows[i]]]

\* mergedData of FilterTransactions.
MergedData(filterData, startDate, endDate, transactionsItem, userDeductionsItem) ==
    SortTaggedByDateDescending(
        Tagged("filter", filterData)
            \o Tagged("derived", GetDerivedRowsForDateRange(startDate, endDate,
                                                            transactionsItem,
                                                            userDeductionsItem)))

\* The Month/Year view without pseudo-types: filteredTransactions,
\* mergedTransactions, totalAmount and the count, with an empty search box.
MonthYearRollup(transactions, viewMode, selectedYear, selectedMonth, selectedType, transactionsItem, userDeductionsItem) ==
    LET ofPeriod ==
            Filter(transactions,
                   {t \in Range(transactions) :
                        IF viewMode = "month"
                        THEN YearOf(t.date) = selectedYear /\ MonthOf(t.date) = selectedMonth
                        ELSE YearOf(t.date) = selectedYear})
        ofType ==
            IF selectedType # "all"
            THEN Filter(ofPeriod, {t \in Range(ofPeriod) : t.transactionType = selectedType})
            ELSE ofPeriod
        filteredTransactions == SortByDateDescending(ofType)
        derivedRows ==
            IF viewMode = "month"
            THEN GetDerivedRowsForMonth(selectedYear, selectedMonth, transactionsItem,
                                        userDeductionsItem)
            ELSE GetDerivedRowsForYear(selectedYear, transactionsItem, userDeductionsItem)
    IN  [rows |-> SortTaggedByDateDescending(Tagged("real", filteredTransactions)
                                                 \o Tagged("derived", derivedRows)),
         totalAmount |-> SumOfTypes(filteredTransactions, TransactionType),
         count |-> Len(filteredTransactions)]

\* The Monthly view with the pseudo-types cheetiDeduction and
\* savings10Percent: filteredTransactions, totalAmount and the count, with an
\* empty search box. selectedType "" is no type; month counts from 0.
MonthlyRollup(transactions, year, month, selectedType, tenPercentSavingsItem, userDeductionsItem) ==
    LET monthTransactions ==
            Filter(transactions,
                   {t \in Range(transactions) :
                        YearOf(t.date) = year /\ MonthOf(t.date) - 1 = month})
        derivedRows == GetDerivedRowsForMonthCached(year, month, tenPercentSavingsItem,
                                                    userDeductionsItem)
        OfKind(derivedType) ==
            Filter(derivedRows, {r \in Range(derivedRows) : r.derivedType = derivedType})
        typeFiltered ==
            CASE selectedType = "" -> monthTransactions \o derivedRows
              [] selectedType = "cheetiDeduction" -> OfKind("Cheeti Deduction")
              [] selectedType = "savings10Percent" -> OfKind("10% Savings")
              [] OTHER -> Filter(monthTransactions,
                                 {t \in Range(monthTransactions) :
                                      t.transactionType = selectedType})
        filteredTransactions == SortByDateDescending(typeFiltered)
    IN  [rows |-> filteredTransactions,
         totalAmount |-> SumField(filteredTransactions, "amount"),
         count |-> Len(filteredTransactions)]

\* mergeWithDerivedRows: the Transaction History list.
MergeWithDerivedRows(transactions, tenPercentSavingsItem, userDeductionsItem) ==
    LET allDates ==
            {StartOfDay(t.date) : t \in Range(transactions)}
                \cup DOMAIN GetLocalTenPercentSavings(tenPercentSavingsItem)
                \cup DOMAIN GetLocalUserDeductions(userDeductionsItem)
        sortedDates == SetToSeqDescending(allDates)
    IN  Flatten([i \in 1 .. Len(sortedDates) |->
                     SortByDateDescending(
                         Filter(transactions,
                                {t \in Range(transactions) :
                                     StartOfDay(t.date) = sortedDates[i]}))
                         \o GetDerivedRowsForDateCached(sortedDates[i],
                                                        tenPercentSavingsItem,
                                                        userDeductionsItem)])

----------------------------------------------------------------------------
\* The list views and their specification.

\* The Filter tab with a start and an end date picked.
ViewFilterTransactions(startDate, endDate) ==
    LET filterData == FilterData(GetLocalTransactions(lsTransactions), startDate, endDate,
                                 GetLocalUserDeductions(lsUserDeductions))
    IN  /\ report' = Report("filterTransactions",
                            [startDate |-> startDate, endDate |-> endDate],
                            Some([filterData |-> filterData,
                                  mergedData |->
                                      MergedData(filterData, startDate, endDate,
                                                 lsTransactions, lsUserDeductions),
                                  totalStats |-> TotalStats(filterData)]))
        /\ lastOp' = Op("filterTransactions", "", -1, 0, 0, None, None, FALSE)
        /\ ViewFrame

\* The Month/Year view without pseudo-types, with a period and a type picked.
ViewMonthYear(viewMode, selectedYear, selectedMonth, selectedType) ==
    /\ report' = Report("monthYear",
                        [viewMode |-> viewMode, selectedType |-> selectedType],
                        Some(MonthYearRollup(GetLocalTransactions(lsTransactions),
                                             viewMode, selectedYear, selectedMonth,
                                             selectedType, lsTransactions,
                                             lsUserDeductions)))
    /\ lastOp' = Op("monthYear", "", -1, 0, 0, None, None, FALSE)
    /\ ViewFrame

\* What the Monthly view's type selector offers, "" being no type.
MonthlySelectors == {"", "cashIn", "cheetiDeduction", "savings10Percent"}

\* The Monthly view with pseudo-types, with a month and a type picked.
ViewMonthly(year, month, selectedType) ==
    /\ report' = Report("monthly",
                        [year |-> year, month |-> month, selectedType |-> selectedType],
                        Some(MonthlyRollup(GetLocalTransactions(lsTransactions), year,
                                           month, selectedType, lsTenPercentSavings,
                                           lsUserDeductions)))
    /\ lastOp' = Op("monthly", "", -1, 0, 0, None, None, FALSE)
    /\ ViewFrame

\* The History tab.
ViewTransactionHistory ==
    /\ report' = Report("transactionHistory", None,
                        Some(MergeWithDerivedRows(GetLocalTransactions(lsTransactions),
                                                  lsTenPercentSavings, lsUserDeductions)))
    /\ lastOp' = Op("transactionHistory", "", -1, 0, 0, None, None, FALSE)
    /\ ViewFrame

\* The dates of the views' transactions: the last tick of a day of month 1 and
\* the first tick of month 2.
ViewDates == {2 * DayLen - 1, TicksPerMonth}

NextViews ==
    \/ AddTransactionStep({"cashIn", "cashOut"}, {-150, 150}, {Null}, ViewDates, {"add"})
    \/ SetUserSpecifiedDeductionStep({DayLen}, {-40, 40}, {"history"})
    \/ GetDailyTrackingStep({DayLen + 1})
    \/ \E endDate \in {DayLen, TicksPerMonth} : ViewFilterTransactions(DayLen, endDate)
    \/ \E viewMode \in {"month", "year"}, selectedType \in {"all", "cashIn"} :
           ViewMonthYear(viewMode, 0, 1, selectedType)
    \/ \E month \in 0 .. 1, selectedType \in MonthlySelectors : ViewMonthly(0, month, selectedType)
    \/ ViewTransactionHistory
    \/ \E date \in {DayLen, DayLen + 1} : CallGetDerivedRowsForDate(date)
    \/ \E dateNs \in {DayLen, DayLen + 1} : CallGetDerivedRowsForDateCached(dateNs)

SpecViews == Init /\ [][NextViews]_vars

\* The rows a view or utility last returned that are derived rows of a kind.
HasDerivedRow(rows, derivedType) ==
    \E i \in 1 .. Len(rows) : rows[i].derivedType = derivedType

\* C18: getDerivedRowsForDate produces a '10% Savings' row exactly when the
\* 10% amount of the date is non-zero and a 'Cheeti Deduction' row exactly
\* when the user deduction stored for the date is non-zero, negative
\* deductions included, and leaves the stored transactions and both override
\* maps as they were.
C18_DerivedRowsWhenNonZero ==
    [][lastOp'.op \in {"getDerivedRowsForDate", "getDerivedRowsForDateCached"}
           => LET rows == report'.output[1]
                  date == lastOp'.date
                  computes == lastOp'.op = "getDerivedRowsForDate"
                  dayKey == IF computes THEN StartOfDay(date) ELSE date
                  tenPercent ==
                      IF computes
                      THEN DaywiseCalculateTenPercentDeduction(InflowsOnDay(dayKey))
                      ELSE Lookup(StoredTenPercentSavings, dayKey)
              IN  /\ HasDerivedRow(rows, "10% Savings") <=> tenPercent # 0
                  /\ HasDerivedRow(rows, "Cheeti Deduction")
                         <=> Lookup(StoredUserDeductions, dayKey) # 0
                  /\ UNCHANGED <<lsTransactions, lsUserDeductions,
                                 lsTenPercentSavings>>]_vars

\* C17: in the Month/Year rollup a real type selected gives rows, a total
\* and a count without any derived row, a derived pseudo-type selected gives
\* only derived rows of that kind, and no type selected gives both the
\* period's transactions and its derived rows.
C17_RollupKeepsKindsApart ==
    /\ lastOp.op = "monthly" =>
           LET rows == report.output[1].rows
               selectedType == report.input.selectedType
               IsDerived(r) == "isDerived" \in DOMAIN r
               ofMonth == {t \in Range(StoredTransactions) :
                               /\ YearOf(t.date) = report.input.year
                               /\ MonthOf(t.date) = report.input.month + 1}
           IN  /\ selectedType \in TransactionType =>
                      /\ \A i \in 1 .. Len(rows) :
                             ~IsDerived(rows[i]) /\ rows[i].transactionType = selectedType
                      /\ report.output[1].totalAmount
                             = SumOfTypes(Filter(StoredTransactions, ofMonth), {selectedType})
                      /\ report.output[1].count
                             = Cardinality({t \in ofMonth : t.transactionType = selectedType})
               /\ selectedType = "cheetiDeduction" =>
                      \A i \in 1 .. Len(rows) :
                          IsDerived(rows[i]) /\ rows[i].derivedType = "Cheeti Deduction"
               /\ selectedType = "savings10Percent" =>
                      \A i \in 1 .. Len(rows) :
                          IsDerived(rows[i]) /\ rows[i].derivedType = "10% Savings"
               /\ selectedType = "" =>
                      /\ ofMonth \subseteq Range(rows)
                      /\ report.output[1].count
                             = Cardinality(ofMonth)
                                   + Cardinality({i \in 1 .. Len(rows) : IsDerived(rows[i])})
    /\ lastOp.op = "monthYear" =>
           LET rows == report.output[1].rows
               selectedType == report.input.selectedType
           IN  /\ selectedType \in TransactionType =>
                      \A i \in 1 .. Len(rows) :
                          /\ rows[i].type = "real"
                          /\ rows[i].data.transactionType = selectedType
               /\ report.output[1].count
                      = Cardinality({i \in 1 .. Len(rows) : rows[i].type = "real"})

\* The dates of the rows of a list, in the list's order.
RowDates(rows) == [i \in 1 .. Len(rows) |-> rows[i].date]

TaggedRowDates(rows) == [i \in 1 .. Len(rows) |-> rows[i].data.date]

NonIncreasing(dates) == \A i \in 1 .. Len(dates) - 1 : dates[i] >= dates[i + 1]

\* C20: every list the reporters return, the date-range breakdown, the
\* month/year rollups and the history merged with derived rows, is in
\* non-increasing date order.
C20_ListsNewestFirst ==
    /\ lastOp.op = "filterTransactions" =>
           /\ NonIncreasing(RowDates(report.output[1].filterData))
           /\ NonIncreasing(TaggedRowDates(report.output[1].mergedData))
    /\ lastOp.op = "monthly" => NonIncreasing(RowDates(report.output[1].rows))
    /\ lastOp.op = "monthYear" => NonIncreasing(TaggedRowDates(report.output[1].rows))
    /\ lastOp.op = "transactionHistory" => NonIncreasing(RowDates(report.output[1]))

(***************************************************************************)
(* Backup and restore                                                      *)
(***************************************************************************)

\* useBackupData: the file holds what getItem returns for each item, null
\* (None) for an item that is absent.  The items apj_balances,
\* apj_daily_tracking and apj_user_profile are never written by the engine.
BackupData ==
    /\ backupFile' = Some([transactions |-> lsTransactions,
                            userDeductions |-> lsUserDeductions,
                            tenPercentSavings |-> lsTenPercentSavings,
                            openingBalance |-> lsOpeningBalance])
    /\ UNCHANGED <<actor, report, auth>>
    /\ lastOp' = Op("backupData", "", -1, 0, 0, None, None, FALSE)
    /\ UNCHANGED <<lsTransactions, lsUserDeductions, lsTenPercentSavings,
                   lsOpeningBalance, qTransactions, qOpeningBalance, maxAssignedId>>

\* if (backupData.item) localStorage.setItem(key, backupData.item): a null
\* in the file leaves the stored item as it is.
RestoredItem(backedUp, current) == IF backedUp # None THEN backedUp ELSE current

\* useRestoreData with the file of the last backup, and its onSuccess.
RestoreData(tab) ==
    /\ backupFile # None
    /\ LET backupData == backupFile[1]
       IN  /\ lsTransactions' = RestoredItem(backupData.transactions, lsTransactions)
           /\ lsUserDeductions' =
                  RestoredItem(backupData.userDeductions, lsUserDeductions)
           /\ lsTenPercentSavings' =
                  RestoredItem(backupData.tenPercentSavings, lsTenPercentSavings)
           /\ lsOpeningBalance' =
                  RestoredItem(backupData.openingBalance, lsOpeningBalance)
    /\ qTransactions' = IF tab = "history"
                           THEN Some(GetLocalTransactions(lsTransactions'))
                           ELSE qTransactions
    /\ qOpeningBalance' = Some(GetLocalOpeningBalance(lsOpeningBalance'))
    /\ UNCHANGED outside
    /\ lastOp' = Op("restoreData", "", -1, 0, 0,
                    RefetchedBalances(tab, qTransactions, qOpeningBalance,
                                      lsTransactions', lsOpeningBalance',
                                      lsTenPercentSavings', lsUserDeductions'),
                    None, FALSE)
    /\ UNCHANGED maxAssignedId

RestoreDataStep == \E tab \in Tabs : RestoreData(tab)

NextBackup ==
    \/ AddTransactionStep({"cashIn"}, {150}, {Null}, {DayLen}, {"add"})
    \/ DeleteTransactionStep({"history"})
    \/ SetUserSpecifiedDeductionStep({DayLen}, {40}, {"history"})
    \/ UpdateOpeningBalanceStep
    \/ ClearTransactionDataStep
    \/ BackupData
    \/ RestoreDataStep

SpecBackup == Init /\ [][NextBackup]_vars

\* C19: after restoreData succeeds with the file backupData made in a state
\* S, the stored transactions, user deductions, ten-percent savings and
\* opening balance are those of S, whatever was stored just before the
\* restore, the items that were absent in S included.
C19_RestoreReplacesAll ==
    lastOp.op = "restoreData" =>
        /\ lsTransactions = backupFile[1].transactions
        /\ lsUserDeductions = backupFile[1].userDeductions
        /\ lsTenPercentSavings = backupFile[1].tenPercentSavings
        /\ lsOpeningBalance = backupFile[1].openingBalance

\* C21: the Daily Tracker called with any timestamp of a day reads the
\* transactions of that day and writes its cache entry under the day's
\* start-of-day key, so every key of the tenPercentSavings map is a
\* start-of-day timestamp and no day has more than one entry.
C21_TrackerWritesUnderDayKey ==
    /\ \A key \in DOMAIN StoredTenPercentSavings : key = StartOfDay(key)
    /\ \A k1, k2 \in DOMAIN StoredTenPercentSavings :
           StartOfDay(k1) = StartOfDay(k2) => k1 = k2
    /\ lastOp.op = "getDailyTracking" =>
           /\ StartOfDay(lastOp.date) \in DOMAIN StoredTenPercentSavings
           /\ StoredTenPercentSavings[StartOfDay(lastOp.date)]
                  = lastOp.tracking[1].dailyTenPercentDeduction
           /\ lastOp.tracking[1].totalDailyTransactions
                  = InflowsOnDay(StartOfDay(lastOp.date))

(***************************************************************************)
(* The backend actor's ledger                                              *)
(***************************************************************************)

\* updateSavingsBalance and updateDeductionsBalance, called with isAddition false.
RevertedOpeningBalance(openingBalance, transactionType, amount) ==
    CASE transactionType = "savingsOut" ->
             [openingBalance EXCEPT !.savings = @ + amount]
      [] transactionType = "deductionsOut" ->
             [openingBalance EXCEPT !.userDeductions = @ + amount]
      [] OTHER -> openingBalance


\* transactions.get(id): the position of the entry in key order, 0 for null.
ActorIndexOf(id) ==
    IF \E i \in 1 .. Len(actor.transactions) : actor.transactions[i].id = id
    THEN CHOOSE i \in 1 .. Len(actor.transactions) : actor.transactions[i].id = id
    ELSE 0

\* editTransaction of the actor, called with a date.
ActorEditTransaction(transactionId, transactionType, amount, description, date) ==
    LET index == ActorIndexOf(transactionId)
    IN  /\ IF amount = 0 \/ index = 0
           THEN /\ actor' = [actor EXCEPT !.registered = TRUE]
                /\ report' = Report("actorEditTransaction", transactionId,
                                    Returned("Failed", transactionId, None))
           ELSE LET existingTransaction == actor.transactions[index]
                    editedTransaction ==
                        [existingTransaction EXCEPT
                             !.transactionType = transactionType,
                             !.amount = amount,
                             !.description = DescriptionOrEmpty(description),
                             !.date = date]
                IN  /\ actor' =
                           [actor EXCEPT
                                !.registered = TRUE,
                                !.transactions = ReplacedAt(@, index, editedTransaction),
                                !.persistentOpeningBalance =
                                    UpdatedOpeningBalance(
                                        RevertedOpeningBalance(
                                            @, existingTransaction.transactionType,
                                            existingTransaction.amount),
                                        transactionType, amount)]
                    /\ report' = Report("actorEditTransaction", transactionId,
                                        Returned("Success", transactionId,
                                                 Some(existingTransaction)))
        /\ ActorFrame

\* deleteTransaction of the actor.
ActorDeleteTransaction(id) ==
    LET index == ActorIndexOf(id)
    IN  /\ IF index = 0
           THEN /\ actor' = [actor EXCEPT !.registered = TRUE]
                /\ report' = Report("actorDeleteTransaction", id,
                                    Returned("Failed", id, None))
           ELSE LET transaction == actor.transactions[index]
                IN  /\ actor' =
                           [actor EXCEPT
                                !.registered = TRUE,
                                !.transactions =
                                    Filter(@, {t \in Range(@) : t.id # id}),
                                !.persistentOpeningBalance =
                                    RevertedOpeningBalance(@, transaction.transactionType,
                                                           transaction.amount)]
                    /\ report' = Report("actorDeleteTransaction", id,
                                        Returned("Success", id, Some(transaction)))
        /\ ActorFrame

\* addOpeningBalance and updateOpeningBalance of the actor: both replace the
\* persistent opening balance (the list of getAllOpeningBalances is not modelled).
ActorSetOpeningBalance(name, openingBalance) ==
    /\ actor' = [actor EXCEPT !.registered = TRUE,
                              !.persistentOpeningBalance = openingBalance]
    /\ report' = Report(name, openingBalance, Returned("Success", -1, None))
    /\ ActorFrame

ActorAddOpeningBalance(openingBalance) ==
    ActorSetOpeningBalance("actorAddOpeningBalance", openingBalance)

ActorUpdateOpeningBalance(openingBalance) ==
    ActorSetOpeningBalance("actorUpdateOpeningBalance", openingBalance)

\* clearTransactionData of the actor.
ActorClearTransactionData ==
    /\ actor' = [ActorInit EXCEPT !.registered = TRUE]
    /\ report' = Report("actorClearTransactionData", None, Returned("Success", -1, None))
    /\ ActorFrame

\* getCumulativeStats of the actor: what it computes from the actor's state a.
ActorCumulativeStats(a) ==
    [cumulativeTenPercentSavings |-> SumValues(a.tenPercentSavings),
     cumulativeUserSpecifiedDeductions |-> SumValues(a.userSpecifiedDeductions)]

\* The queries getBalances and getCumulativeStats: they trap for a caller without a role.
ActorGetBalances ==
    /\ report' = Report("actorGetBalances", None,
                        IF ~actor.registered THEN Trap ELSE Some(ActorBalances(actor)))
    /\ UNCHANGED actor
    /\ ActorFrame

ActorGetCumulativeStats ==
    /\ report' = Report("actorGetCumulativeStats", None,
                        IF ~actor.registered THEN Trap
                        ELSE Some(ActorCumulativeStats(actor)))
    /\ UNCHANGED actor
    /\ ActorFrame

ActorOpeningBalance ==
    [cashBalance |-> 500, upiBalance |-> 300, savings |-> 100, userDeductions |-> 40,
     date |-> DayLen]

ActorLedgerTypes == {"cashIn", "savingsOut", "deductionsOut"}

NextActorLedger ==
    \/ \E transactionType \in ActorLedgerTypes, amount \in {0, 150} :
           ActorAddTransaction(transactionType, amount, Null, DayLen)
    \/ \E transactionId \in 0 .. 1, transactionType \in {"cashIn", "savingsOut"},
          amount \in {0, 150} :
           ActorEditTransaction(transactionId, transactionType, amount, Null, DayLen)
    \/ \E id \in 0 .. 1 : ActorDeleteTransaction(id)
    \/ ActorSetUserSpecifiedDeduction(DayLen, 40)
    \/ ActorAddOpeningBalance(ActorOpeningBalance)
    \/ ActorUpdateOpeningBalance(ActorOpeningBalance)
    \/ ActorClearTransactionData
    \/ ActorGetDailyTracking(DayLen)
    \/ ActorGetBalances
    \/ ActorGetCumulativeStats

SpecActorLedger == InitActor /\ [][NextActorLedger]_vars

(***************************************************************************)
(* The frames of setUserSpecifiedDeduction and editTransaction, in the     *)
(* frontend and in the actor                                               *)
(***************************************************************************)

FrameDates == {DayLen, 2 * DayLen}

\* A page load over a store, and an actor, that already hold an opening
\* balance and a deduction for the second day.
InitFrames ==
    /\ lsTransactions = None
    /\ lsTenPercentSavings = None
    /\ lsUserDeductions = Some((2 * DayLen) :> 25)
    /\ lsOpeningBalance = Some(ActorOpeningBalance)
    /\ qTransactions = None
    /\ qOpeningBalance = None
    /\ lastOp = Op("init", "", -1, 0, 0, None, None, FALSE)
    /\ maxAssignedId = -1
    /\ actor = [ActorInit EXCEPT !.registered = TRUE,
                                 !.userSpecifiedDeductions = (2 * DayLen) :> 25,
                                 !.persistentOpeningBalance = ActorOpeningBalance]
    /\ backupFile = None
    /\ auth = SignedIn
    /\ report = NoReport

NextFrames ==
    \/ AddTransactionStep({"cashIn"}, {150}, {Null}, {DayLen}, {"add"})
    \/ EditTransactionStep({"cashOut"}, {50}, {"rent"}, {2 * DayLen}, {"history"})
    \/ SetUserSpecifiedDeductionStep({DayLen}, {40, 70}, {"history"})
    \/ ActorAddTransaction("cashIn", 150, Null, DayLen)
    \/ \E transactionId \in 0 .. 1 :
           ActorEditTransaction(transactionId, "savingsOut", 50, "rent", 2 * DayLen)
    \/ \E amount \in {40, 70} : ActorSetUserSpecifiedDeduction(DayLen, amount)

SpecFrames == InitFrames /\ [][NextFrames]_vars

\* C22: setUserSpecifiedDeduction(day, amount) sets the day's entry of the
\* user deductions to amount, overwriting what was there, and leaves every
\* other entry, the transactions, the tenPercentSavings map and the opening
\* balance unchanged, in the frontend and in the actor.
C22_SetDeductionFrame ==
    [][/\ lastOp'.op = "setUserSpecifiedDeduction" =>
           /\ DOMAIN StoredUserDeductions'
                  = DOMAIN StoredUserDeductions \cup {lastOp'.date}
           /\ \A day \in DOMAIN StoredUserDeductions' :
                  StoredUserDeductions'[day] =
                      IF day = lastOp'.date THEN lastOp'.amount
                                            ELSE StoredUserDeductions[day]
           /\ UNCHANGED <<lsTransactions, lsTenPercentSavings, lsOpeningBalance>>
       /\ report'.name = "actorSetUserSpecifiedDeduction" =>
           /\ DOMAIN actor'.userSpecifiedDeductions
                  = DOMAIN actor.userSpecifiedDeductions \cup {report'.input}
           /\ \A day \in DOMAIN actor'.userSpecifiedDeductions :
                  actor'.userSpecifiedDeductions[day] =
                      IF day = report'.input THEN report'.output[1]
                                             ELSE actor.userSpecifiedDeductions[day]
           /\ actor'.transactions = actor.transactions
           /\ actor'.tenPercentSavings = actor.tenPercentSavings
           /\ actor'.persistentOpeningBalance = actor.persistentOpeningBalance]_vars

\* Deductions are set for both days, next to transactions and an opening
\* balance, in the frontend and in the actor.
C22_Witness ==
    /\ lastOp.op = "setUserSpecifiedDeduction"
    /\ DOMAIN StoredUserDeductions = FrameDates
    /\ StoredUserDeductions[lastOp.date] = 70
    /\ StoredTransactions # <<>>
    /\ lsOpeningBalance # None
    /\ report.name = "actorSetUserSpecifiedDeduction"
    /\ DOMAIN actor.userSpecifiedDeductions = FrameDates
    /\ actor.userSpecifiedDeductions[report.input] = 70
    /\ actor.transactions # <<>>
    /\ actor.persistentOpeningBalance = ActorOpeningBalance

\* C23: a successful editTransaction(id, ...) replaces only the type, amount,
\* description and date of the transaction with that id: the number of stored
\* transactions, the id and position of the edited entry and every field of
\* every other transaction are unchanged, in the frontend and in the actor.
C23_EditFrame ==
    [][/\ (lastOp'.op = "editTransaction" /\ lastOp'.error = "") =>
           /\ Len(StoredTransactions') = Len(StoredTransactions)
           /\ \E i \in 1 .. Len(StoredTransactions) :
                  /\ StoredTransactions[i].id = lastOp'.id
                  /\ StoredTransactions'[i].id = lastOp'.id
                  /\ StoredTransactions'[i].amount = lastOp'.amount
                  /\ \A j \in 1 .. Len(StoredTransactions) :
                         j # i => StoredTransactions'[j] = StoredTransactions[j]
       /\ (report'.name = "actorEditTransaction" /\ report'.output[1].result = "Success") =>
           /\ Len(actor'.transactions) = Len(actor.transactions)
           /\ \E i \in 1 .. Len(actor.transactions) :
                  /\ actor.transactions[i].id = report'.input
                  /\ actor'.transactions[i].id = report'.input
                  /\ \A j \in 1 .. Len(actor.transactions) :
                         j # i => actor'.transactions[j] = actor.transactions[j]]_vars

\* The second of two transactions has been edited, in the frontend and in
\* the actor.
C23_Witness ==
    /\ lastOp.op = "editTransaction" /\ lastOp.error = ""
    /\ Len(StoredTransactions) = 2
    /\ StoredTransactions[2].id = lastOp.id
    /\ StoredTransactions[2].transactionType = "cashOut"
    /\ StoredTransactions[1].transactionType = "cashIn"
    /\ report.name = "actorEditTransaction" /\ report.output[1].result = "Success"
    /\ Len(actor.transactions) = 2
    /\ actor.transactions[2].id = report.input
    /\ actor.transactions[2].transactionType = "savingsOut"
    /\ actor.transactions[1].transactionType = "cashIn"

\* C24: in the actor, addTransaction, editTransaction and deleteTransaction
\* never change the stored opening balance, whatever the transaction type;
\* only addOpeningBalance, updateOpeningBalance and clearTransactionData do.
C24_OnlyOpeningBalanceCallsChangeIt ==
    [][actor'.persistentOpeningBalance # actor.persistentOpeningBalance
           => report'.name \in {"actorAddOpeningBalance", "actorUpdateOpeningBalance",
                                "actorClearTransactionData"}]_vars

\* C25: in the actor, adding a transaction and then deleting it returns
\* getBalances to what it gave before the add, and editing a transaction
\* and then editing it back to its old values returns getBalances to what it
\* gave before the first edit.
C25_AddDeleteAndEditBackRestoreBalances ==
    [][/\ ( /\ report.name = "actorAddTransaction"
            /\ report.output[1].result = "Success"
            /\ report'.name = "actorDeleteTransaction"
            /\ report'.output[1].result = "Success"
            /\ report'.input = report.output[1].id )
           => ActorBalances(actor') = report.output[1].balancesBefore
       /\ ( /\ report.name = "actorEditTransaction"
            /\ report.output[1].result = "Success"
            /\ report'.name = "actorEditTransaction"
            /\ report'.output[1].result = "Success"
            /\ report'.input = report.input
            /\ report.output[1].previous[1] \in Range(actor'.transactions) )
           => ActorBalances(actor') = report.output[1].balancesBefore]_vars

\* C26: in the actor, once getDailyTracking(D) has answered, the
\* tenPercentSavings entry for D equals the dailyTenPercentDeduction it
\* returned, so the cumulative 10% savings of getCumulativeStats and
\* getBalances include it.
C26_ActorTrackerFillsSavings ==
    (report.name = "actorGetDailyTracking" /\ report.output # Trap) =>
        /\ Lookup(actor.tenPercentSavings, report.input)
               = report.output[1].dailyTenPercentDeduction
        /\ ActorCumulativeStats(actor).cumulativeTenPercentSavings
               >= report.output[1].dailyTenPercentDeduction

\* C27: once a mutation (add, edit, delete, clear, restore, opening balance)
\* has completed, the transaction list a getBalances query would compute
\* from, the cached data of ['transactions'] preferred over storage, is the
\* list that is persisted.
C27_BalancesReadPersistedList ==
    ( /\ lastOp.op \in {"addTransaction", "editTransaction", "deleteTransaction",
                         "clearTransactionData", "restoreData", "addOpeningBalance",
                         "updateOpeningBalance"}
      /\ lastOp.error = "" )
        => CachedOr(qTransactions, StoredTransactions) = StoredTransactions

(***************************************************************************)
(* PIN authentication: usePinAuth, PinAuth and App                         *)
(***************************************************************************)

\* What App renders.
Screen ==
    IF auth.isInitializing THEN "loading"
    ELSE IF ~auth.isAuthenticated THEN "pinAuth"
    ELSE "dashboard"

\* Nothing of the ledger, the actor or the reports changes; the query
\* cache is given separately.
AuthFrame ==
    UNCHANGED <<lsTransactions, lsUserDeductions, lsTenPercentSavings, lsOpeningBalance,
                lastOp, maxAssignedId, actor, backupFile, report>>

QueryCacheKept == UNCHANGED <<qTransactions, qOpeningBalance>>

\* queryClient.clear(), and the empty cache of a new page.
QueryCacheCleared == qTransactions' = None /\ qOpeningBalance' = None

\* The last two entries after one more.
EntriesWith(entries, value) ==
    IF Len(entries) < 2 THEN Append(entries, value) ELSE <<entries[2], value>>

ConfirmationNeverDiffers(value, pin) == FALSE

\* value !== pin
ConfirmationDiffers(value, pin) == value # pin

\* sessionStorage.removeItem(SESSION_AUTH_KEY) of logout.
WithoutSession(a) == [a EXCEPT !.sessionAuthenticated = None]

WithoutPinKeepingHash(a) ==
    [a EXCEPT !.pinSetupComplete = None, !.sessionAuthenticated = None]

\* The three removeItem calls of resetPin.
WithoutPin(a) ==
    [a EXCEPT !.pinHash = None, !.pinSetupComplete = None, !.sessionAuthenticated = None]

\* The browser loads the page: in the same tab session or in a new one.
LoadPage(newSession) ==
    /\ auth' = [auth EXCEPT
                    !.sessionAuthenticated = IF newSession THEN None ELSE @,
                    !.accepted = IF newSession THEN None ELSE @,
                    !.isAuthenticated = FALSE, !.isInitializing = TRUE,
                    !.hasPinSetup = FALSE, !.isVerifyingPin = FALSE,
                    !.authError = None, !.pinAuth = PinAuthMounted(None),
                    !.pending = None, !.event = "load"]
    /\ QueryCacheCleared
    /\ AuthFrame

\* The mount effect of usePinAuth.
MountEffect ==
    /\ auth.isInitializing
    /\ LET storedAndComplete ==
               auth.pinHash # None /\ auth.pinSetupComplete = Some("true")
       IN  auth' = [auth EXCEPT
                        !.hasPinSetup = storedAndComplete,
                        !.isAuthenticated =
                            auth.sessionAuthenticated = Some("true") /\ storedAndComplete,
                        !.isInitializing = FALSE,
                        !.event = "mount"]
    /\ QueryCacheCleared
    /\ AuthFrame

\* setupPin and verifyPin up to their await, as PinAuth sees them: the
\* validation failures return false at once.
PinRejectedError == "PIN must be exactly 4 digits"

NoPinError == "No PIN found. Please reset and set up a new PIN."

\* What PinAuth holds after a call returned false: the authError effect
\* runs when authError has changed and overrides the component's message.
AfterFailedCall(pinAuth, message, authErrorBefore, authErrorAfter, setup) ==
    [pinAuth EXCEPT
         !.pin = <<>>,
         !.confirmPin = IF setup THEN <<>> ELSE @,
         !.isConfirming = IF setup THEN FALSE ELSE @,
         !.isProcessing = FALSE,
         !.error = IF authErrorAfter # authErrorBefore /\ authErrorAfter # None
                   THEN authErrorAfter[1] ELSE message]

\* handlePinComplete(value) of PinAuth, to its return or its await.
HandlePinComplete(value) ==
    /\ Screen = "pinAuth"
    /\ LET p == auth.pinAuth
           entries == EntriesWith(auth.entries, value)
       IN  IF p.isProcessing \/ auth.isVerifyingPin
           THEN UNCHANGED auth
           ELSE IF ~auth.hasPinSetup /\ ~p.isConfirming
           THEN auth' = [auth EXCEPT
                             !.pinAuth = [p EXCEPT !.pin = value, !.isConfirming = TRUE,
                                                   !.error = "", !.isProcessing = FALSE],
                             !.entries = entries, !.event = "entry"]
           ELSE IF ~auth.hasPinSetup /\ ConfirmationDiffers(value, p.pin)
           THEN auth' = [auth EXCEPT
                             !.pinAuth = [p EXCEPT
                                              !.error = "PINs do not match. Please try again.",
                                              !.pin = <<>>, !.confirmPin = <<>>,
                                              !.isConfirming = FALSE,
                                              !.isProcessing = FALSE],
                             !.entries = entries, !.event = "mismatch"]
           ELSE IF ~auth.hasPinSetup
           THEN IF ~IsFourDigits(value)
                THEN auth' = [auth EXCEPT
                                  !.authError = Some(PinRejectedError),
                                  !.pinAuth =
                                      AfterFailedCall(p, "Failed to set up PIN. Please try again.",
                                                      auth.authError, Some(PinRejectedError),
                                                      TRUE),
                                  !.entries = entries, !.event = "setupPinRejected",
                                  !.setupCalledWith =
                                      Some([pin |-> value, entries |-> entries])]
                ELSE auth' = [auth EXCEPT
                                  !.authError = None, !.isVerifyingPin = TRUE,
                                  !.pending = Some([call |-> "setupPin", pin |-> value,
                                                    storedHash |-> None]),
                                  !.pinAuth = [p EXCEPT !.confirmPin = value, !.error = "",
                                                        !.isProcessing = TRUE],
                                  !.entries = entries, !.event = "setupPinCalled",
                                  !.setupCalledWith =
                                      Some([pin |-> value, entries |-> entries])]
           ELSE IF ~IsFourDigits(value)
           THEN auth' = [auth EXCEPT
                             !.authError = Some(PinRejectedError),
                             !.pinAuth = AfterFailedCall(p, "", auth.authError,
                                                         Some(PinRejectedError), FALSE),
                             !.entries = entries, !.event = "verifyPinRejected"]
           ELSE IF auth.pinHash = None
           THEN auth' = [auth EXCEPT
                             !.authError = Some(NoPinError),
                             !.pinAuth = AfterFailedCall(p, "", auth.authError,
                                                         Some(NoPinError), FALSE),
                             !.entries = entries, !.event = "verifyPinRejected"]
           ELSE auth' = [auth EXCEPT
                             !.authError = None, !.isVerifyingPin = TRUE,
                             !.pending = Some([call |-> "verifyPin", pin |-> value,
                                               storedHash |-> auth.pinHash]),
                             !.pinAuth = [p EXCEPT !.pin = value, !.error = "",
                                                   !.isProcessing = TRUE],
                             !.entries = entries, !.event = "verifyPinCalled"]
    /\ QueryCacheKept
    /\ AuthFrame

\* setupPin after its await: hashPin has answered or thrown.
SetupPinCompletes(hashed) ==
    /\ auth.pending # None
    /\ auth.pending[1].call = "setupPin"
    /\ LET pin == auth.pending[1].pin
           failed == "Failed to set up PIN. Please try again."
       IN  IF hashed
           THEN auth' = [auth EXCEPT
                             !.pinHash = Some(HashPin(pin)),
                             !.pinSetupComplete = Some("true"),
                             !.sessionAuthenticated = Some("true"),
                             !.hasPinSetup = TRUE, !.isAuthenticated = TRUE,
                             !.isVerifyingPin = FALSE, !.authError = None,
                             !.pending = None,
                             !.pinAuth = PinAuthMounted(None),
                             !.event = "setupPin",
                             !.setUp = Some(pin), !.accepted = Some(pin)]
           ELSE auth' = [auth EXCEPT
                             !.authError = Some(failed), !.isVerifyingPin = FALSE,
                             !.pending = None,
                             !.pinAuth = AfterFailedCall(@, failed, auth.authError,
                                                         Some(failed), TRUE),
                             !.event = "setupPinFailed"]
    /\ QueryCacheKept
    /\ AuthFrame

\* verifyPin after its await.
VerifyPinCompletes(hashed) ==
    /\ auth.pending # None
    /\ auth.pending[1].call = "verifyPin"
    /\ LET pin == auth.pending[1].pin
           isValid == Some(HashPin(pin)) = auth.pending[1].storedHash
           message == IF hashed THEN "Incorrect PIN. Please try again."
                                ELSE "An error occurred. Please try again."
       IN  IF hashed /\ isValid
           THEN auth' = [auth EXCEPT
                             !.sessionAuthenticated = Some("true"),
                             !.isAuthenticated = TRUE,
                             !.isVerifyingPin = FALSE, !.authError = None,
                             !.pending = None,
                             !.pinAuth = PinAuthMounted(None),
                             !.event = "verifyPin", !.accepted = Some(pin)]
           ELSE auth' = [auth EXCEPT
                             !.authError = Some(message), !.isVerifyingPin = FALSE,
                             !.pending = None,
                             !.pinAuth = AfterFailedCall(@, "", auth.authError,
                                                         Some(message), FALSE),
                             !.event = "verifyPinFailed"]
    /\ QueryCacheKept
    /\ AuthFrame

\* handleBack of PinAuth; the button is shown while confirming and enabled
\* while nothing is loading.
HandleBack ==
    /\ Screen = "pinAuth"
    /\ ~auth.hasPinSetup /\ auth.pinAuth.isConfirming
    /\ ~(auth.pinAuth.isProcessing \/ auth.isVerifyingPin)
    /\ auth' = [auth EXCEPT
                    !.pinAuth = [@ EXCEPT !.isConfirming = FALSE, !.pin = <<>>,
                                          !.confirmPin = <<>>, !.error = ""],
                    !.event = "back"]
    /\ QueryCacheKept
    /\ AuthFrame

\* handleReset of PinAuth, confirmed: handleResetPin of App (resetPin and
\* queryClient.clear()), then the component's own resets.
HandleReset ==
    /\ Screen = "pinAuth"
    /\ auth.hasPinSetup
    /\ ~(auth.pinAuth.isProcessing \/ auth.isVerifyingPin)
    /\ auth' = [WithoutPin(auth) EXCEPT
                    !.hasPinSetup = FALSE, !.isAuthenticated = FALSE,
                    !.isVerifyingPin = FALSE, !.authError = None,
                    !.pinAuth = [@ EXCEPT !.pin = <<>>, !.confirmPin = <<>>,
                                          !.isConfirming = FALSE, !.error = ""],
                    !.event = "resetPin", !.setUp = None, !.accepted = None]
    /\ QueryCacheCleared
    /\ AuthFrame

\* logout, from the Header of the dashboard; App's effect clears the cache
\* and PinAuth mounts.
Logout ==
    /\ Screen = "dashboard"
    /\ auth' = [WithoutSession(auth) EXCEPT
                    !.isAuthenticated = FALSE,
                    !.pinAuth = PinAuthMounted(auth.authError),
                    !.event = "logout", !.accepted = None]
    /\ QueryCacheCleared
    /\ AuthFrame

Pins == {<<"1", "2", "3", "4">>, <<"4", "3", "2", "1">>, <<"1", "2", "a", "4">>}

InitPin ==
    /\ EngineInit
    /\ actor = ActorInit
    /\ backupFile = None
    /\ report = NoReport
    /\ auth = AuthInit

NextPin ==
    \/ \E newSession \in BOOLEAN : LoadPage(newSession)
    \/ MountEffect
    \/ \E value \in Pins : HandlePinComplete(value)
    \/ \E hashed \in BOOLEAN : SetupPinCompletes(hashed)
    \/ \E hashed \in BOOLEAN : VerifyPinCompletes(hashed)
    \/ HandleBack
    \/ HandleReset
    \/ Logout
    \/ Screen = "dashboard"
           /\ AddTransactionStep({"cashIn"}, {150}, {Null}, {DayLen}, {"add"})

SpecPin == InitPin /\ [][NextPin]_vars

\* C28: isAuthenticated is true only if a PIN hash is stored with setup
\* marked complete and this session was authenticated by setupPin with a
\* 4-digit PIN or by verifyPin with the PIN whose hash is stored; a wrong or
\* malformed PIN never authenticates, and the Dashboard is rendered only
\* while isAuthenticated is true.
C28_AuthenticatedOnlyByThePin ==
    /\ auth.isAuthenticated =>
           /\ auth.pinHash # None
           /\ auth.pinSetupComplete = Some("true")
           /\ auth.sessionAuthenticated = Some("true")
           /\ auth.accepted # None
           /\ Len(auth.accepted[1]) = 4
           /\ \A i \in 1 .. Len(auth.accepted[1]) : auth.accepted[1][i] \in Digits
           /\ auth.accepted = auth.setUp
           /\ HashPin(auth.accepted[1]) = auth.pinHash[1]
    /\ Screen = "dashboard" => auth.isAuthenticated

\* verifyPin has authenticated the session after a different PIN was tried.
C28_Witness ==
    /\ auth.isAuthenticated
    /\ auth.event = "verifyPin"
    /\ Len(auth.entries) = 2
    /\ auth.entries[1] # auth.entries[2]

\* C29: during first-time setup PinAuth calls onSetupPin only with a value
\* entered twice in succession; a mismatching confirmation stores nothing,
\* clears both entries and returns to the first-entry step; and no entry is
\* processed while a previous one is being processed or verified.
C29_SetupOnlyAfterConfirmation ==
    [][/\ auth'.setupCalledWith # None =>
              auth'.setupCalledWith[1].entries
                  = <<auth'.setupCalledWith[1].pin, auth'.setupCalledWith[1].pin>>
       /\ ( /\ Screen = "pinAuth"
            /\ ~auth.hasPinSetup
            /\ auth.pinAuth.isConfirming
            /\ auth'.entries # auth.entries
            /\ auth'.entries[Len(auth'.entries)] # auth.pinAuth.pin )
           => /\ auth'.pinHash = auth.pinHash
              /\ auth'.pinSetupComplete = auth.pinSetupComplete
              /\ auth'.sessionAuthenticated = auth.sessionAuthenticated
              /\ auth'.setupCalledWith = auth.setupCalledWith
              /\ auth'.pending = None
              /\ auth'.pinAuth.pin = <<>>
              /\ auth'.pinAuth.confirmPin = <<>>
              /\ ~auth'.pinAuth.isConfirming
       /\ (auth.pinAuth.isProcessing \/ auth.isVerifyingPin)
           => /\ auth'.entries = auth.entries
              /\ auth'.setupCalledWith = auth.setupCalledWith]_vars

\* A confirmation did not match, after an earlier call of onSetupPin.
C29_Witness ==
    /\ auth.event = "mismatch"
    /\ auth.setupCalledWith # None
    /\ auth.pinAuth.pin = <<>>
    /\ ~auth.pinAuth.isConfirming

\* C30: logout makes isAuthenticated false and removes the session flag
\* while the stored PIN hash and the ledger data stay as they were; resetPin
\* removes the PIN hash, the setup-complete flag and the session flag and
\* makes hasPinSetup and isAuthenticated false, and no verifyPin succeeds
\* afterwards until setupPin has succeeded again.
C30_LogoutAndResetPin ==
    [][/\ (auth'.event = "logout" /\ auth' # auth)
           => /\ ~auth'.isAuthenticated
              /\ auth'.sessionAuthenticated = None
              /\ auth'.pinHash = auth.pinHash
              /\ auth'.pinSetupComplete = auth.pinSetupComplete
              /\ UNCHANGED <<lsTransactions, lsUserDeductions, lsTenPercentSavings,
                             lsOpeningBalance>>
       /\ (auth'.event = "resetPin" /\ auth' # auth)
           => /\ auth'.pinHash = None
              /\ auth'.pinSetupComplete = None
              /\ auth'.sessionAuthenticated = None
              /\ ~auth'.hasPinSetup
              /\ ~auth'.isAuthenticated
       /\ (auth'.event = "verifyPin" /\ auth' # auth)
           => /\ auth.setUp # None
              /\ auth'.accepted = auth.setUp
       /\ auth'.setUp = None
           => /\ auth'.pinHash = None
              /\ ~auth'.isAuthenticated]_vars

\* The PIN has been reset in a browser that holds transactions.
C30_Witness ==
    /\ auth.event = "resetPin"
    /\ auth.pinHash = None
    /\ StoredTransactions # <<>>

====
